---- MODULE Spec2Model ----
(***************************************************************************)
(* A model of microvtk's VtuWriter (include/microvtk/vtu_writer.hpp): the  *)
(* block registry, the layout planner and the two-mode binary encoder,     *)
(* together with the byte-level helpers they call (binary_utils.hpp,       *)
(* data_accessor.hpp, compressor.hpp), and of the library's other parts:   *)
(* XmlBuilder (core/xml_utils.hpp), PvdWriter (pvd_writer.hpp) and the     *)
(* range adapters (adapter.hpp, cabana_adapter.hpp).  Each part has its    *)
(* own specification, in which the other parts stay as constructed.        *)
(*                                                                         *)
(* A caller-owned range is a record [type, vals, contiguous]: its element  *)
(* type (by VTK type name), its element values and whether the container   *)
(* is a contiguous_range.  A byte is a number in 0..255, a buffer or a     *)
(* stream a sequence of bytes.                                             *)
(***************************************************************************)
EXTENDS Integers, Sequences, FiniteSets, TLC

VARIABLES
    accessors,          \* accessors_: the ranges registered, in registration order
    currentOffset,      \* currentOffset_
    compressionType,    \* compressionType_
    numberOfPoints,     \* numberOfPoints_
    numberOfCells,      \* numberOfCells_
    pointsBlock,        \* pointsBlock_
    cellsConnBlock,     \* cellsConnBlock_
    cellsOffsetsBlock,  \* cellsOffsetsBlock_
    cellsTypesBlock,    \* cellsTypesBlock_
    pointDataBlocks,    \* pointDataBlocks_
    cellDataBlocks,     \* cellDataBlocks_
    available,          \* the codecs compiled in (MICROVTK_HAS_ZLIB / MICROVTK_HAS_LZ4)
    file,               \* the file at the path of the last write: <<>> or <<document>>
    ret,                \* how the last call ended: "ok", "invalid_argument", "crash"
    last,               \* history: the last call and the inputs the environment gave it
    calls,              \* history: the number of registration calls made
    writes,             \* history: the number of write calls made
    xml,                \* an XmlBuilder: os_ (what was written to it), indent_spaces_,
                        \* element_stack_, state_, depth_, pretty_
    xmlHist,            \* history: the builder's open elements and its last call
    steps,              \* PvdWriter::steps_
    pvdFile,            \* the file at PvdWriter::filename_: <<>> or <<its text>>
    pvdHist,            \* history: the addStep calls made and the last call
    binBuffer,          \* a std::vector<uint8_t> that write_le and append_* write to
    binHist,            \* history: the last call on binBuffer, its input, the buffer before
    encoded,            \* the last base64_encode call: its input and the string returned
    particles,          \* a container of aggregate records (a std::vector<Particle>)
    adapted,            \* what adapt(particles, member) returned: <<>> or <<the view>>
    slice,              \* a Cabana::Slice: its rank, tuple width and tuples
    it,                 \* a CabanaFlattenedView<Slice>::Iterator: [idx], or <<>>
    got,                \* history: the view's size() and the last element read from it
    rangeAccessor,      \* a RangeAccessor<R>: the range it refers to, and the host's byte order
    stream,             \* a std::ostream that write_to_stream writes to
    copied,             \* a std::vector<uint8_t> that write_to writes to
    accLoop,            \* the call running on the accessor: which one, the index of the
                        \* element its loop is at, and write_to_stream's temp buffer
    accHist             \* history: the number of write_to_stream and of write_to calls made

vtuVars == <<accessors, currentOffset, compressionType, numberOfPoints, numberOfCells,
             pointsBlock, cellsConnBlock, cellsOffsetsBlock, cellsTypesBlock,
             pointDataBlocks, cellDataBlocks, available, file, ret, last, calls, writes>>

xmlVars == <<xml, xmlHist>>

pvdVars == <<steps, pvdFile, pvdHist>>

binVars == <<binBuffer, binHist, encoded>>

adapterVars == <<particles, adapted>>

cabanaVars == <<slice, it, got>>

accVars == <<rangeAccessor, stream, copied, accLoop, accHist>>

vars == <<vtuVars, xmlVars, pvdVars, binVars, adapterVars, cabanaVars, accVars>>

writerVars == <<accessors, currentOffset, numberOfPoints, numberOfCells,
                pointsBlock, cellsConnBlock, cellsOffsetsBlock, cellsTypesBlock,
                pointDataBlocks, cellDataBlocks>>

(***************************************************************************)
(* Bounds of the model.                                                    *)
(***************************************************************************)
MaxCalls == 2       \* registration calls (setPoints, setCells, add*Data) per writer
MaxXmlCalls == 6    \* calls made on one XmlBuilder
MaxSteps == 2       \* addStep calls made on one PvdWriter
MaxBuffer == 8      \* bytes in the buffer of the byte-level helpers
MaxParticles == 2   \* records in the container given to adapt
MaxTuples == 2       \* tuples in the slice given to the flattening adapter
MaxEncodeCalls == 1  \* base64_encode calls made
MaxAccessorCalls == 1  \* write_to_stream calls, and write_to calls, on one accessor
MaxWrites == 2       \* write calls made on one writer that is written more than once

(***************************************************************************)
(* Sequence helpers.                                                       *)
(***************************************************************************)
RECURSIVE Flatten(_)
Flatten(ss) == IF ss = <<>> THEN <<>> ELSE Head(ss) \o Flatten(Tail(ss))

Reverse(s) == [i \in 1..Len(s) |-> s[Len(s) + 1 - i]]

\* value >> (8 * k)
RECURSIVE ShiftRight8(_, _)
ShiftRight8(value, k) == IF k = 0 THEN value ELSE ShiftRight8(value \div 256, k - 1)

(***************************************************************************)
(* common/types.hpp: the element types and their VTK names.  An element    *)
(* type is identified by its VTK name; sizeof follows from it.             *)
(***************************************************************************)
vtkTypeName(T) == T

SizeOf(T) ==
    CASE T \in {"Int8", "UInt8"} -> 1
      [] T \in {"Int16", "UInt16"} -> 2
      [] T \in {"Int32", "UInt32", "Float32"} -> 4
      [] T \in {"Int64", "UInt64", "Float64"} -> 8

(***************************************************************************)
(* core/binary_utils.hpp.  `big` is std::endian::native == endian::big.    *)
(* ObjectBytes is the object representation of a w-byte value in memory,   *)
(* which is what reinterpret_cast<const uint8_t*> reads; the functions     *)
(* that work on that representation are modelled on it.                    *)
(***************************************************************************)
\* the low-order byte lies first on a little-endian host, last on a big-endian one
RECURSIVE ObjectBytes(_, _, _)
ObjectBytes(value, w, big) ==
    IF w = 0 THEN <<>>
    ELSE IF big THEN ObjectBytes(value \div 256, w - 1, big) \o <<value % 256>>
                ELSE <<value % 256>> \o ObjectBytes(value \div 256, w - 1, big)

\* internal::byteswap(value), on the object representation of value
byteswap(bytes) == Reverse(bytes)

\* write_le copying the value's bytes as they lie in memory
write_le_native(value, w, big, buf) == buf \o ObjectBytes(value, w, big)

\* write_le(value, buffer): the buffer after the call
write_le(value, w, big, buffer) ==
    LET bytes == ObjectBytes(value, w, big)
    IN  buffer \o (IF big THEN byteswap(bytes) ELSE bytes)

RECURSIVE write_le_each(_, _, _, _)
write_le_each(vals, w, big, buffer) ==
    IF vals = <<>> THEN buffer
    ELSE write_le_each(Tail(vals), w, big, write_le(Head(vals), w, big, buffer))

\* append_range(range, buffer): the buffer after the call
append_range(range, big, buffer) ==
    LET w == SizeOf(range.type)
    IN  IF range.contiguous
        THEN IF ~big
             THEN \* the caller's memory, inserted as it lies
                  buffer \o Flatten([i \in 1..Len(range.vals) |->
                                        ObjectBytes(range.vals[i], w, big)])
             ELSE \* each value byteswapped, then memcpy'd
                  buffer \o Flatten([i \in 1..Len(range.vals) |->
                                        byteswap(ObjectBytes(range.vals[i], w, big))])
        ELSE write_le_each(range.vals, w, big, buffer)

\* append_data(data, buffer), data a std::span: the buffer after the call
append_data(data, big, buf) == append_range(data, big, buf)

(***************************************************************************)

\* base64_encode: a std::string is the sequence of its characters.
lookup ==
    << "A", "B", "C", "D", "E", "F", "G", "H", "I", "J", "K", "L", "M", "N", "O", "P",
       "Q", "R", "S", "T", "U", "V", "W", "X", "Y", "Z", "a", "b", "c", "d", "e", "f",
       "g", "h", "i", "j", "k", "l", "m", "n", "o", "p", "q", "r", "s", "t", "u", "v",
       "w", "x", "y", "z", "0", "1", "2", "3", "4", "5", "6", "7", "8", "9", "+", "/" >>

\* the loop over the whole 3-byte groups, from byte index i (counted from 0);
\* the index it stops at and the output so far
RECURSIVE base64_groups(_, _, _)
base64_groups(input, i, output) ==
    IF i + 2 < Len(input)
    THEN LET val == input[i + 1] * 65536 + input[i + 2] * 256 + input[i + 3]
         IN  base64_groups(input, i + 3,
                 output \o << lookup[((val \div 262144) % 64) + 1],
                              lookup[((val \div 4096) % 64) + 1],
                              lookup[((val \div 64) % 64) + 1],
                              lookup[(val % 64) + 1] >>)
    ELSE [i |-> i, output |-> output]

\* the one or two bytes left after the whole groups, padded with '='
base64_remainder(input, i, output) ==
    IF i < Len(input)
    THEN LET val == input[i + 1] * 65536
                    + (IF i + 1 < Len(input) THEN input[i + 2] * 256 ELSE 0)
         IN  output \o << lookup[((val \div 262144) % 64) + 1],
                          lookup[((val \div 4096) % 64) + 1],
                          IF i + 1 < Len(input) THEN lookup[((val \div 64) % 64) + 1]
                          ELSE "=",
                          "=" >>
    ELSE output

\* base64_encode leaving out the bytes after the last whole group
base64_encode_wholeGroups(input) == base64_groups(input, 0, <<>>).output

base64_encode(input) ==
    LET g == base64_groups(input, 0, <<>>)
    IN  base64_remainder(input, g.i, g.output)
(* adapter.hpp.  An aggregate record is a record of its members; a pointer *)
(* to member is the member's name.  adapt(c, member) is a transform_view   *)
(* over c, a range that is not contiguous.                                 *)
(***************************************************************************)
MemberTypes == [mass |-> "Float64", id |-> "Int32"]     \* struct Particle

\* adapt leaving out the last record
adapt_dropLast(c, member) ==
    [type |-> MemberTypes[member],
     vals |-> [i \in 1..(IF c = <<>> THEN 0 ELSE Len(c) - 1) |-> c[i][member]],
     contiguous |-> FALSE]

adapt(c, member) ==
    [type |-> MemberTypes[member],
     vals |-> [i \in 1..Len(c) |-> c[i][member]],
     contiguous |-> FALSE]

(***************************************************************************)
(* cabana_adapter.hpp: CabanaFlattenedView<SliceType> and its Iterator.    *)
(* A slice is [type, rank, extent, tuples]: the scalar type, the rank of   *)
(* its DataType (0: a scalar, 1: an array), the array's extent and one     *)
(* sequence of scalars per tuple.  s(t) and s(t, c) count from 0.          *)
(***************************************************************************)
SliceSize(s) == Len(s.tuples)                       \* slice_.size()

SliceAt(s, t_idx, c_idx) == s.tuples[t_idx + 1][c_idx + 1]

get_num_components(s) == IF s.rank > 0 THEN s.extent ELSE 1

NumComponents(s) == get_num_components(s)

\* size() counting the tuples
CabanaSize_tuples(s) == SliceSize(s)

\* CabanaFlattenedView::size()
CabanaSize(s) == SliceSize(s) * NumComponents(s)

Iterator(idx) == [idx |-> idx]

\* Iterator::access: s(t_idx) for rank 0, s(t_idx, c_idx) for rank > 0
access(s, t_idx, c_idx) ==
    IF s.rank = 0 THEN SliceAt(s, t_idx, 0) ELSE SliceAt(s, t_idx, c_idx)

\* Iterator::operator*
Deref(s, i) ==
    LET tuple_idx == i.idx \div NumComponents(s)
        comp_idx == i.idx % NumComponents(s)
    IN  access(s, tuple_idx, comp_idx)

\* Iterator::operator+ and operator[]
IteratorPlus(i, n) == Iterator(i.idx + n)
IteratorAt(s, i, n) == Deref(s, IteratorPlus(i, n))

CabanaBegin(s) == Iterator(0)
CabanaEnd(s) == Iterator(CabanaSize(s))

\* adapt(slice): the view is the slice it refers to
adaptSlice(s) == s

(***************************************************************************)
(* core/data_accessor.hpp: RangeAccessor<R>.                               *)
(***************************************************************************)
FlushThreshold == 4096

size_bytes(range) == Len(range.vals) * SizeOf(range.type)

write_to(range, big, buffer) == append_range(range, big, buffer)

\* The slow path of write_to_stream keeps [temp, os]: the buffer the values
\* are encoded into and the stream.  This iteration flushes temp to the
\* stream without the value just encoded.
write_to_stream_iteration_flushBefore(val, w, big, threshold, st) ==
    LET t == write_le(val, w, big, st.temp)
    IN  IF Len(t) >= threshold
        THEN [temp |-> <<>>, os |-> st.os \o st.temp]
        ELSE [temp |-> t, os |-> st.os]

\* one iteration of the loop: the value is encoded into temp, and temp is
\* written to the stream and cleared when it holds at least `threshold` bytes
write_to_stream_iteration(val, w, big, threshold, st) ==
    LET t == write_le(val, w, big, st.temp)
    IN  IF Len(t) >= threshold
        THEN [temp |-> <<>>, os |-> st.os \o t]
        ELSE [temp |-> t, os |-> st.os]

\* after the loop: what is left in temp is written to the stream
write_to_stream_rest(st) == IF st.temp # <<>> THEN st.os \o st.temp ELSE st.os

\* the loop over the values, then what follows it; temp is empty after an
\* iteration exactly when the iteration flushed it to the stream
RECURSIVE write_to_stream_slow(_, _, _, _, _, _)
write_to_stream_slow(vals, w, big, threshold, temp, os) ==
    IF vals = <<>>
    THEN write_to_stream_rest([temp |-> temp, os |-> os])
    ELSE LET st == write_to_stream_iteration(Head(vals), w, big, threshold,
                                             [temp |-> temp, os |-> os])
         IN  IF st.temp = <<>>
             THEN write_to_stream_slow(Tail(vals), w, big, threshold, <<>>, st.os)
             ELSE write_to_stream_slow(Tail(vals), w, big, threshold, st.temp, os)

\* write_to_stream(os): the stream after the call
write_to_stream(range, big, os) ==
    LET w == SizeOf(range.type)
    IN  IF range.contiguous /\ ~big
        THEN os \o Flatten([i \in 1..Len(range.vals) |->
                               ObjectBytes(range.vals[i], w, big)])
        ELSE write_to_stream_slow(range.vals, w, big, FlushThreshold, <<>>, os)

(***************************************************************************)
(* core/compressor.hpp.  The codecs themselves are zlib and lz4; a codec   *)
(* is modelled by an injective encoding whose output is never empty and    *)
(* differs in length from its input: the payload stored behind one marker  *)
(* byte per codec.  A compress call that fails returns the empty buffer;   *)
(* which call fails is an input of write.                                  *)
(***************************************************************************)
CompressionTypes == {"None", "ZLib", "LZ4"}

CodecMarker(codec) == IF codec = "ZLib" THEN 120 ELSE 4

compress(codec, input) == <<CodecMarker(codec)>> \o input

\* createCompressor returning a codec whether or not it is compiled in
createCompressor_always(type) ==
    CASE type = "ZLib" -> "ZLib"
      [] type = "LZ4"  -> "LZ4"
      [] OTHER         -> "null"

\* createCompressor(type): the codec, or "null" when it is not compiled in
createCompressor(type) ==
    CASE type = "ZLib" -> IF "ZLib" \in available THEN "ZLib" ELSE "null"
      [] type = "LZ4"  -> IF "LZ4" \in available THEN "LZ4" ELSE "null"
      [] OTHER         -> "null"

(***************************************************************************)
(* core/xml_utils.hpp: XmlBuilder.  A builder is the record of its members *)
(* with os the sequence of the strings written to os_, one per <<.  A      *)
(* value given to attribute is a string, an integer or a double; a double  *)
(* is held in tenths.  std::format("{}", value) prints a string as it is,  *)
(* an integer in decimal and a double in the shortest form that reads back *)
(* as the same double.                                                     *)
(***************************************************************************)
StringValue(s) == [t |-> "string", s |-> s, n |-> 0]
IntValue(n) == [t |-> "int", s |-> "", n |-> n]
DoubleValue(tenths) == [t |-> "double", s |-> "", n |-> tenths]

FormatDouble(tenths) ==
    LET a == IF tenths < 0 THEN -tenths ELSE tenths
    IN  (IF tenths < 0 THEN "-" ELSE "") \o ToString(a \div 10)
        \o (IF a % 10 = 0 THEN "" ELSE "." \o ToString(a % 10))

Format(value) ==
    CASE value.t = "string" -> value.s
      [] value.t = "int"    -> ToString(value.n)
      [] value.t = "double" -> FormatDouble(value.n)

XmlBuilder(indent_spaces) ==
    [os |-> <<>>, indent_spaces |-> indent_spaces, element_stack |-> <<>>,
     state |-> "Initial", depth |-> 0, pretty |-> TRUE]

\* os_ << str
Put(b, str) == [b EXCEPT !.os = Append(@, str)]

RECURSIVE PutSpaces(_, _)
PutSpaces(b, n) == IF n <= 0 THEN b ELSE PutSpaces(Put(b, " "), n - 1)

indent(b) == PutSpaces(b, b.depth * b.indent_spaces)

startElement(b, name) ==
    LET b1 == IF b.state = "InStartTag"
              THEN IF b.pretty THEN Put(Put(b, ">"), "\n") ELSE Put(b, ">")
              ELSE b
        b2 == IF b1.pretty /\ b1.state # "Initial" THEN indent(b1) ELSE b1
        b3 == Put(b2, "<" \o name)
    IN  [b3 EXCEPT !.element_stack = Append(@, name),
                   !.state = "InStartTag",
                   !.depth = @ + 1]

attribute(b, name, value) == Put(b, " " \o name \o "=\"" \o Format(value) \o "\"")

\* endElement closing the element started first instead of the one started last
endElement_oldest(b) ==
    IF b.element_stack = <<>> THEN b
    ELSE LET name == b.element_stack[1]
             b1 == [b EXCEPT !.element_stack = Tail(@),
                             !.depth = @ - 1]
             b2 == IF b1.state = "InStartTag"
                   THEN LET c == Put(b1, "/>")
                        IN  IF c.pretty THEN Put(c, "\n") ELSE c
                   ELSE LET c == Put(IF b1.pretty THEN indent(b1) ELSE b1,
                                     "</" \o name \o ">")
                        IN  IF c.pretty THEN Put(c, "\n") ELSE c
         IN  [b2 EXCEPT !.state = "Content"]

\* endElement lowering depth_ before it looks at the stack
endElement_depthFirst(b) ==
    IF b.element_stack = <<>> THEN [b EXCEPT !.depth = @ - 1]
    ELSE LET name == b.element_stack[Len(b.element_stack)]
             b1 == [b EXCEPT !.element_stack = SubSeq(@, 1, Len(@) - 1),
                             !.depth = @ - 1]
             b2 == IF b1.state = "InStartTag"
                   THEN LET c == Put(b1, "/>")
                        IN  IF c.pretty THEN Put(c, "\n") ELSE c
                   ELSE LET c == Put(IF b1.pretty THEN indent(b1) ELSE b1,
                                     "</" \o name \o ">")
                        IN  IF c.pretty THEN Put(c, "\n") ELSE c
         IN  [b2 EXCEPT !.state = "Content"]

\* endElement closing every element with an explicit end tag
endElement_explicit(b) ==
    IF b.element_stack = <<>> THEN b
    ELSE LET name == b.element_stack[Len(b.element_stack)]
             b1 == [b EXCEPT !.element_stack = SubSeq(@, 1, Len(@) - 1),
                             !.depth = @ - 1]
             b3 == Put(IF b1.pretty THEN indent(b1) ELSE b1, "</" \o name \o ">")
         IN  [(IF b3.pretty THEN Put(b3, "\n") ELSE b3) EXCEPT !.state = "Content"]

endElement(b) ==
    IF b.element_stack = <<>> THEN b
    ELSE LET name == b.element_stack[Len(b.element_stack)]
             b1 == [b EXCEPT !.element_stack = SubSeq(@, 1, Len(@) - 1),
                             !.depth = @ - 1]
             b2 == IF b1.state = "InStartTag"
                   THEN LET c == Put(b1, "/>")
                        IN  IF c.pretty THEN Put(c, "\n") ELSE c
                   ELSE LET c == Put(IF b1.pretty THEN indent(b1) ELSE b1,
                                     "</" \o name \o ">")
                        IN  IF c.pretty THEN Put(c, "\n") ELSE c
         IN  [b2 EXCEPT !.state = "Content"]

writeRaw(b, str) == Put(b, str)

\* ScopedElement: its constructor, attr and its destructor
scopedElement(b, name) == startElement(b, name)
attr(b, name, value) == attribute(b, name, value)
ScopedElementEnd(b) == endElement(b)

(***************************************************************************)
(* pvd_writer.hpp: PvdWriter.  A step is [time, file], the time a double   *)
(* in tenths.                                                              *)
(***************************************************************************)
\* addStep(time, vtu_file): steps_ after the call
addStep(st, time, vtu_file) == Append(st, [time |-> time, file |-> vtu_file])

\* the body of the loop over steps_ in save, from the k-th step on
RECURSIVE saveSteps(_, _, _)
saveSteps(b, st, k) ==
    IF k > Len(st) THEN b
    ELSE LET ds == scopedElement(b, "DataSet")
             d1 == attr(ds, "timestep", DoubleValue(st[k].time))
             d2 == attr(d1, "group", StringValue(""))
             d3 == attr(d2, "part", IntValue(0))
             d4 == attr(d3, "file", StringValue(st[k].file))
         IN  saveSteps(ScopedElementEnd(d4), st, k + 1)

\* save writing the steps last added first
save_reversed(st) ==
    LET x1 == startElement(XmlBuilder(2), "VTKFile")
        x2 == attribute(x1, "type", StringValue("Collection"))
        x3 == attribute(x2, "version", StringValue("1.0"))
        x4 == attribute(x3, "byte_order", StringValue("LittleEndian"))
        x5 == attribute(x4, "header_type", StringValue("UInt64"))
        collection == scopedElement(x5, "Collection")
        x6 == saveSteps(collection, [i \in 1..Len(st) |-> st[Len(st) + 1 - i]], 1)
        x7 == ScopedElementEnd(x6)
    IN  endElement(x7).os

\* save(): what it writes to the ofstream
save(st) ==
    LET x1 == startElement(XmlBuilder(2), "VTKFile")
        x2 == attribute(x1, "type", StringValue("Collection"))
        x3 == attribute(x2, "version", StringValue("1.0"))
        x4 == attribute(x3, "byte_order", StringValue("LittleEndian"))
        x5 == attribute(x4, "header_type", StringValue("UInt64"))
        collection == scopedElement(x5, "Collection")
        x6 == saveSteps(collection, st, 1)
        x7 == ScopedElementEnd(x6)
    IN  endElement(x7).os

(***************************************************************************)
(* VtuWriter: DataBlockInfo and registerData.  The field `reg` is history: *)
(* the position in accessors_ of the accessor registered with the block.   *)
(***************************************************************************)
DataBlockInfo(name, offset, typeName, numComponents, valid, reg) ==
    [name |-> name, offset |-> offset, typeName |-> typeName,
     numComponents |-> numComponents, valid |-> valid, reg |-> reg]

\* a default-constructed block: offset and numComponents have no initialiser
\* in the source and are read only behind `valid`, which is false here
DefaultBlock == DataBlockInfo("", 0, "", 0, FALSE, 0)

HeaderSize == 8             \* sizeof(uint64_t), the streaming length prefix

\* registerData advancing the offset by the payload alone
registerData_noHeader(r, data, name, numComponents) ==
    [info |-> DataBlockInfo(name, r.currentOffset, vtkTypeName(data.type),
                            numComponents, TRUE, Len(r.accessors) + 1),
     accessors |-> Append(r.accessors, data),
     currentOffset |-> r.currentOffset + size_bytes(data)]

\* registerData giving the block the offset behind its own data
registerData_offsetBehind(r, data, name, numComponents) ==
    [info |-> DataBlockInfo(name, r.currentOffset + HeaderSize + size_bytes(data),
                            vtkTypeName(data.type), numComponents, TRUE,
                            Len(r.accessors) + 1),
     accessors |-> Append(r.accessors, data),
     currentOffset |-> r.currentOffset + HeaderSize + size_bytes(data)]

\* registerData(data, name, numComponents) on a registry r = [accessors,
\* currentOffset]: the block info returned and the registry after the call
registerData(r, data, name, numComponents) ==
    [info |-> DataBlockInfo(name, r.currentOffset, vtkTypeName(data.type),
                            numComponents, TRUE, Len(r.accessors) + 1),
     accessors |-> Append(r.accessors, data),
     currentOffset |-> r.currentOffset + HeaderSize + size_bytes(data)]

Registry == [accessors |-> accessors, currentOffset |-> currentOffset]

(***************************************************************************)
(* The inputs of the model: the ranges a caller registers.                 *)
(***************************************************************************)
Range(type, vals, contiguous) == [type |-> type, vals |-> vals, contiguous |-> contiguous]

Ranges == { Range("UInt8", <<7, 8, 9>>, TRUE),      \* a std::vector<uint8_t>
            Range("UInt16", <<258>>, FALSE) }       \* a std::list<uint16_t>

\* what add*Data is called with: a name, a range and a component count
Attributes == { [name |-> "mass", data |-> Range("UInt16", <<258, 3>>, FALSE), comps |-> 1],
                [name |-> "none", data |-> Range("UInt8", <<>>, TRUE), comps |-> 0] }

NoWrite == [op |-> "none", mode |-> "none", opened |-> FALSE, failAt |-> 0,
            trace |-> <<>>]

Alive == ret # "crash"

(***************************************************************************)
(* VtuWriter: the registration calls.                                      *)
(***************************************************************************)
setCompression(type) ==
    /\ Alive
    /\ compressionType' = type
    /\ ret' = "ok"
    /\ last' = NoWrite
    /\ UNCHANGED <<writerVars, available, file, calls, writes>>

\* setPoints taking every coordinate for a point
setPoints_noDivide(points) ==
    /\ Alive
    /\ LET r == registerData(Registry, points, "Points", 3)
       IN  /\ numberOfPoints' = Len(points.vals)
           /\ pointsBlock' = r.info
           /\ accessors' = r.accessors
           /\ currentOffset' = r.currentOffset
    /\ calls' = calls + 1
    /\ ret' = "ok"
    /\ last' = NoWrite
    /\ UNCHANGED <<compressionType, numberOfCells, cellsConnBlock, cellsOffsetsBlock,
                   cellsTypesBlock, pointDataBlocks, cellDataBlocks, available, file,
                   writes>>

setPoints(points) ==
    /\ Alive
    /\ LET r == registerData(Registry, points, "Points", 3)
       IN  /\ numberOfPoints' = Len(points.vals) \div 3
           /\ pointsBlock' = r.info
           /\ accessors' = r.accessors
           /\ currentOffset' = r.currentOffset
    /\ calls' = calls + 1
    /\ ret' = "ok"
    /\ last' = NoWrite
    /\ UNCHANGED <<compressionType, numberOfCells, cellsConnBlock, cellsOffsetsBlock,
                   cellsTypesBlock, pointDataBlocks, cellDataBlocks, available, file,
                   writes>>

\* setCells validating only after connectivity has been registered
setCells_lateCheck(connectivity, offsets, types) ==
    /\ Alive
    /\ calls' = calls + 1
    /\ last' = NoWrite
    /\ LET r1 == registerData(Registry, connectivity, "connectivity", 1)
           r2 == registerData(r1, offsets, "offsets", 1)
           r3 == registerData(r2, types, "types", 1)
       IN  IF Len(offsets.vals) # Len(types.vals)
           THEN /\ ret' = "invalid_argument"
                /\ cellsConnBlock' = r1.info
                /\ accessors' = r1.accessors
                /\ currentOffset' = r1.currentOffset
                /\ UNCHANGED <<numberOfPoints, numberOfCells, pointsBlock,
                               cellsOffsetsBlock, cellsTypesBlock, pointDataBlocks,
                               cellDataBlocks, compressionType, available, file, writes>>
           ELSE /\ numberOfCells' = Len(types.vals)
                /\ cellsConnBlock' = r1.info
                /\ cellsOffsetsBlock' = r2.info
                /\ cellsTypesBlock' = r3.info
                /\ accessors' = r3.accessors
                /\ currentOffset' = r3.currentOffset
                /\ ret' = "ok"
                /\ UNCHANGED <<compressionType, numberOfPoints, pointsBlock,
                               pointDataBlocks, cellDataBlocks, available, file, writes>>

setCells(connectivity, offsets, types) ==
    /\ Alive
    /\ calls' = calls + 1
    /\ last' = NoWrite
    /\ IF Len(offsets.vals) # Len(types.vals)
       THEN /\ ret' = "invalid_argument"
            /\ UNCHANGED <<writerVars, compressionType, available, file, writes>>
       ELSE LET r1 == registerData(Registry, connectivity, "connectivity", 1)
                r2 == registerData(r1, offsets, "offsets", 1)
                r3 == registerData(r2, types, "types", 1)
            IN  /\ numberOfCells' = Len(types.vals)
                /\ cellsConnBlock' = r1.info
                /\ cellsOffsetsBlock' = r2.info
                /\ cellsTypesBlock' = r3.info
                /\ accessors' = r3.accessors
                /\ currentOffset' = r3.currentOffset
                /\ ret' = "ok"
                /\ UNCHANGED <<compressionType, numberOfPoints, pointsBlock,
                               pointDataBlocks, cellDataBlocks, available, file, writes>>

addPointData(name, data, numComponents) ==
    /\ Alive
    /\ LET r == registerData(Registry, data, name, numComponents)
       IN  /\ pointDataBlocks' = Append(pointDataBlocks, r.info)
           /\ accessors' = r.accessors
           /\ currentOffset' = r.currentOffset
    /\ calls' = calls + 1
    /\ ret' = "ok"
    /\ last' = NoWrite
    /\ UNCHANGED <<compressionType, numberOfPoints, numberOfCells, pointsBlock,
                   cellsConnBlock, cellsOffsetsBlock, cellsTypesBlock, cellDataBlocks,
                   available, file, writes>>

addCellData(name, data, numComponents) ==
    /\ Alive
    /\ LET r == registerData(Registry, data, name, numComponents)
       IN  /\ cellDataBlocks' = Append(cellDataBlocks, r.info)
           /\ accessors' = r.accessors
           /\ currentOffset' = r.currentOffset
    /\ calls' = calls + 1
    /\ ret' = "ok"
    /\ last' = NoWrite
    /\ UNCHANGED <<compressionType, numberOfPoints, numberOfCells, pointsBlock,
                   cellsConnBlock, cellsOffsetsBlock, cellsTypesBlock, pointDataBlocks,
                   available, file, writes>>

(***************************************************************************)
(* VtuWriter::write, phase 1: the compression pre-pass.                    *)
(***************************************************************************)
\* the blocks in the order the pre-pass and the emission visit them; the
\* block at position k is processed with accessor index k - 1
BlockList(pb, cb, ob, tb, pds, cds) == <<pb, cb, ob, tb>> \o pds \o cds

Blocks == BlockList(pointsBlock, cellsConnBlock, cellsOffsetsBlock, cellsTypesBlock,
                    pointDataBlocks, cellDataBlocks)

CompressedHeaderSize == 32  \* 4 * sizeof(uint64_t)

\* accessors_[index] is read outside the vector for some valid block
OutOfBounds == \E k \in 1..Len(Blocks) : Blocks[k].valid /\ k - 1 >= Len(accessors)

NumValid == Cardinality({k \in 1..Len(Blocks) : Blocks[k].valid})

PrePassStart == [runningOffset |-> 0, compressedBuffers |-> <<>>,
                 originalSizes |-> <<>>, infos |-> <<>>, srcs |-> <<>>]

\* processBlock advancing the running offset by the compressed size alone
processBlock_noHeader(info, index, st, compressor, failAt, garbage, big) ==
    IF ~info.valid
    THEN [st EXCEPT !.infos = Append(@, info)]
    ELSE LET accessor == IF index < Len(accessors) THEN accessors[index + 1] ELSE garbage
             tempRaw == write_to(accessor, big, <<>>)
             callNo == Len(st.compressedBuffers) + 1
             compressed == IF callNo = failAt THEN <<>> ELSE compress(compressor, tempRaw)
         IN  [runningOffset |-> st.runningOffset + Len(compressed),
              compressedBuffers |-> Append(st.compressedBuffers, compressed),
              originalSizes |-> Append(st.originalSizes, Len(tempRaw)),
              infos |-> Append(st.infos, [info EXCEPT !.offset = st.runningOffset]),
              srcs |-> Append(st.srcs, IF index < Len(accessors) THEN index + 1 ELSE 0)]

\* processBlock(info, index) on the pre-pass state st.  `garbage` is what an
\* out-of-bounds accessors_[index] yields when the read does not crash;
\* failAt is the number of the compress call that returns the empty buffer.
processBlock(info, index, st, compressor, failAt, garbage, big) ==
    IF ~info.valid
    THEN [st EXCEPT !.infos = Append(@, info)]
    ELSE LET accessor == IF index < Len(accessors) THEN accessors[index + 1] ELSE garbage
             tempRaw == write_to(accessor, big, <<>>)
             callNo == Len(st.compressedBuffers) + 1
             compressed == IF callNo = failAt THEN <<>> ELSE compress(compressor, tempRaw)
         IN  [runningOffset |-> st.runningOffset + CompressedHeaderSize + Len(compressed),
              compressedBuffers |-> Append(st.compressedBuffers, compressed),
              originalSizes |-> Append(st.originalSizes, Len(tempRaw)),
              infos |-> Append(st.infos, [info EXCEPT !.offset = st.runningOffset]),
              srcs |-> Append(st.srcs, IF index < Len(accessors) THEN index + 1 ELSE 0)]

RECURSIVE processBlocks(_, _, _, _, _, _)
processBlocks(k, st, compressor, failAt, garbage, big) ==
    IF k > Len(Blocks) THEN st
    ELSE processBlocks(k + 1,
                       processBlock(Blocks[k], k - 1, st, compressor, failAt, garbage, big),
                       compressor, failAt, garbage, big)

PrePass(compressor, failAt, garbage, big) ==
    processBlocks(1, PrePassStart, compressor, failAt, garbage, big)

(***************************************************************************)
(* VtuWriter::write, phase 2: the schema.  A DataArray element is a record *)
(* of its attributes; `section` is the element it sits in, and blk and reg *)
(* are history (the block's position in Blocks and its accessor).          *)
(***************************************************************************)
\* writeArrayHeader(xml, info): the DataArray elements it emits (none or one)
writeArrayHeader(section, info, blk) ==
    IF ~info.valid THEN <<>>
    ELSE << [section |-> section, type |-> info.typeName, Name |-> info.name,
             NumberOfComponents |-> info.numComponents, format |-> "appended",
             offset |-> info.offset, blk |-> blk, reg |-> info.reg] >>

SchemaArrays(infos, npd, ncd) ==
    writeArrayHeader("Points", infos[1], 1)
    \o writeArrayHeader("Cells", infos[2], 2)
    \o writeArrayHeader("Cells", infos[3], 3)
    \o writeArrayHeader("Cells", infos[4], 4)
    \o Flatten([i \in 1..npd |-> writeArrayHeader("PointData", infos[4 + i], 4 + i)])
    \o Flatten([i \in 1..ncd |-> writeArrayHeader("CellData", infos[4 + npd + i], 4 + npd + i)])

\* the compressor attribute naming zlib for every codec
CompressorAttribute_zlibOnly(usingCompression) ==
    IF usingCompression THEN "vtkZLibDataCompressor" ELSE ""

CompressorAttribute(usingCompression) ==
    IF usingCompression
    THEN CASE compressionType = "ZLib" -> "vtkZLibDataCompressor"
           [] compressionType = "LZ4"  -> "vtkLZ4DataCompressor"
           [] OTHER -> ""
    ELSE ""

(***************************************************************************)
(* VtuWriter::write, phase 3: the binary section, what is written after    *)
(* the ">_" marker and before "</AppendedData>".  An emission state is     *)
(* [os, segs]: the bytes written so far and, as history, one segment per   *)
(* block written: the accessor its payload came from (0: none of them),    *)
(* where its header starts and how many bytes were written for it.         *)
(***************************************************************************)
EmitStart == [os |-> <<>>, segs |-> <<>>]

LE64(val, big) == write_le(val, 8, big, <<>>)

\* writeCompressedBlock(origSize) with bufIdx (counted from 1 here)
writeCompressedBlock(origSize, bufIdx, compressedBuffers, src, e, big) ==
    LET header == <<1, origSize, origSize, Len(compressedBuffers[bufIdx])>>
        headerBytes == Flatten([i \in 1..4 |-> LE64(header[i], big)])
        \* the first loop appends the four fields to compressedBuffers[bufIdx],
        \* the buffer `compressed` refers to
        compressed == compressedBuffers[bufIdx] \o headerBytes
    IN  [os |-> e.os \o headerBytes \o compressed,
         segs |-> Append(e.segs, [src |-> src, pos |-> Len(e.os),
                                  len |-> Len(headerBytes) + Len(compressed)])]

RECURSIVE writeCompressedBlocks(_, _, _, _)
writeCompressedBlocks(bufIdx, pre, e, big) ==
    IF bufIdx > Len(pre.compressedBuffers) THEN e
    ELSE writeCompressedBlocks(bufIdx + 1, pre,
             writeCompressedBlock(pre.originalSizes[bufIdx], bufIdx,
                                  pre.compressedBuffers, pre.srcs[bufIdx], e, big),
             big)

\* the streaming loop writing the element count as the length header
writeStreamingBlock_count(k, e, big) ==
    LET headerBuf == LE64(Len(accessors[k].vals), big)
        os1 == e.os \o headerBuf
        os2 == write_to_stream(accessors[k], big, os1)
    IN  [os |-> os2,
         segs |-> Append(e.segs, [src |-> k, pos |-> Len(e.os),
                                  len |-> Len(os2) - Len(e.os)])]

\* one iteration of the streaming loop, for accessors_[k]
writeStreamingBlock(k, e, big) ==
    LET headerBuf == LE64(size_bytes(accessors[k]), big)
        os1 == e.os \o headerBuf
        os2 == write_to_stream(accessors[k], big, os1)
    IN  [os |-> os2,
         segs |-> Append(e.segs, [src |-> k, pos |-> Len(e.os),
                                  len |-> Len(os2) - Len(e.os)])]

RECURSIVE writeStreamingBlocks(_, _, _)
writeStreamingBlocks(k, e, big) ==
    IF k > Len(accessors) THEN e
    ELSE writeStreamingBlocks(k + 1, writeStreamingBlock(k, e, big), big)

(***************************************************************************)
(* VtuWriter::write.  Inputs: whether the ofstream opens the target path,  *)
(* which compress call fails (0: none), what an out-of-bounds accessor     *)
(* read does (ub.crash, or else the range ub.garbage that the memory read  *)
(* yields), and the host's byte order.                                     *)
(***************************************************************************)
\* the schema with a PointData element whether or not it has arrays
Document_emptyPointData(usingCompression, infos, e) ==
    [compressor |-> CompressorAttribute(usingCompression),
     NumberOfPoints |-> numberOfPoints,
     NumberOfCells |-> numberOfCells,
     arrays |-> SchemaArrays(infos, Len(pointDataBlocks), Len(cellDataBlocks)),
     PointData |-> TRUE,
     CellData |-> cellDataBlocks # <<>>,
     bin |-> e.os,
     segs |-> e.segs,
     closed |-> <<"</AppendedData>", "</VTKFile>">>]

Document(usingCompression, infos, e) ==
    [compressor |-> CompressorAttribute(usingCompression),
     NumberOfPoints |-> numberOfPoints,
     NumberOfCells |-> numberOfCells,
     arrays |-> SchemaArrays(infos, Len(pointDataBlocks), Len(cellDataBlocks)),
     PointData |-> pointDataBlocks # <<>>,
     CellData |-> cellDataBlocks # <<>>,
     bin |-> e.os,
     segs |-> e.segs,
     closed |-> <<"</AppendedData>", "</VTKFile>">>]

\* Without compression there is no pre-pass: the blocks stay as registered.
\* Here the skipped pre-pass resets the offsets as the compressed one does.
NoPrePass_resetOffsets ==
    [PrePassStart EXCEPT !.infos = [k \in 1..Len(Blocks) |-> [Blocks[k] EXCEPT !.offset = 0]]]

NoPrePass == [PrePassStart EXCEPT !.infos = Blocks]

\* The order of write's effects, as history: per block the pre-pass
\* processes, "materialize" (accessor->write_to), "compress" and "offset"
\* (info.offset = runningOffset); "open" for the ofstream's construction; and
\* "write" for each output to the stream: the schema, each block of the
\* binary section, the closing tags.
PrePassEvents(n) == [i \in 1..(3 * n) |-> <<"materialize", "compress", "offset">>[((i - 1) % 3) + 1]]

\* the file opened before the pre-pass
WriteEvents_openFirst(pre, e) ==
    <<"open">> \o PrePassEvents(Len(pre.compressedBuffers))
        \o <<"write">> \o [i \in 1..Len(e.segs) |-> "write"] \o <<"write">>

WriteEvents(pre, e) ==
    PrePassEvents(Len(pre.compressedBuffers))
        \o <<"open">>
        \o <<"write">> \o [i \in 1..Len(e.segs) |-> "write"] \o <<"write">>

\* the events up to a crash on reading accessors_ out of bounds
CrashEvents ==
    LET first == CHOOSE k \in 1..Len(Blocks) :
                     /\ Blocks[k].valid /\ k - 1 >= Len(accessors)
                     /\ \A j \in 1..(k - 1) : ~(Blocks[j].valid /\ j - 1 >= Len(accessors))
    IN  PrePassEvents(Cardinality({j \in 1..(first - 1) : Blocks[j].valid})) \o <<"crash">>

write(openOk, failAt, ub, big) ==
    /\ Alive
    /\ writes' = writes + 1
    /\ LET compressor == createCompressor(compressionType)
           usingCompression == compressionType # "None" /\ compressor # "null"
       IN  IF usingCompression /\ OutOfBounds /\ ub.crash
           THEN /\ ret' = "crash"
                /\ last' = [op |-> "write", mode |-> "compressed", opened |-> FALSE,
                            failAt |-> failAt, trace |-> CrashEvents]
                /\ file' = <<>>
                /\ UNCHANGED <<writerVars, compressionType, available, calls>>
           ELSE \E pre \in {IF usingCompression
                            THEN PrePass(compressor, failAt, ub.garbage, big)
                            ELSE NoPrePass} :
                \E e \in {IF usingCompression
                          THEN writeCompressedBlocks(1, pre, EmitStart, big)
                          ELSE writeStreamingBlocks(1, EmitStart, big)} :
                LET npd == Len(pointDataBlocks)
                    ncd == Len(cellDataBlocks)
                IN  /\ pointsBlock' = pre.infos[1]
                    /\ cellsConnBlock' = pre.infos[2]
                    /\ cellsOffsetsBlock' = pre.infos[3]
                    /\ cellsTypesBlock' = pre.infos[4]
                    /\ pointDataBlocks' = SubSeq(pre.infos, 5, 4 + npd)
                    /\ cellDataBlocks' = SubSeq(pre.infos, 5 + npd, 4 + npd + ncd)
                    /\ file' = IF openOk
                               THEN << Document(usingCompression, pre.infos, e) >>
                               ELSE <<>>
                    /\ ret' = "ok"
                    /\ last' = [op |-> "write",
                                mode |-> IF usingCompression THEN "compressed"
                                         ELSE "streaming",
                                opened |-> openOk, failAt |-> failAt,
                                trace |-> WriteEvents(pre, e)]
                    /\ UNCHANGED <<accessors, currentOffset, numberOfPoints,
                                   numberOfCells, compressionType, available, calls>>

(***************************************************************************)
(* The specification: one writer through its documented life, a build      *)
(* phase of setCompression and registration calls in any order and with    *)
(* any repetition, then one write to a fresh path.                         *)
(***************************************************************************)
Builds == SUBSET {"ZLib", "LZ4"}

VtuInit ==
    /\ accessors = <<>>
    /\ currentOffset = 0
    /\ compressionType = "None"
    /\ numberOfPoints = 0
    /\ numberOfCells = 0
    /\ pointsBlock = DefaultBlock
    /\ cellsConnBlock = DefaultBlock
    /\ cellsOffsetsBlock = DefaultBlock
    /\ cellsTypesBlock = DefaultBlock
    /\ pointDataBlocks = <<>>
    /\ cellDataBlocks = <<>>
    /\ available \in Builds
    /\ file = <<>>
    /\ ret = "ok"
    /\ last = NoWrite
    /\ calls = 0
    /\ writes = 0

NoXmlCall == [op |-> "none", name |-> "", open |-> FALSE, children |-> 0,
              terminated |-> 0, wrote |-> <<>>]

XmlInit ==
    /\ xml = XmlBuilder(2)
    /\ xmlHist = [open |-> <<>>, last |-> NoXmlCall, calls |-> 0]

PvdInit ==
    /\ steps = <<>>
    /\ pvdFile = <<>>
    /\ pvdHist = [added |-> <<>>, saves |-> 0, last |-> "none"]

NoBinCall == [op |-> "none", before |-> <<>>, type |-> "UInt8", vals |-> <<>>]

NotEncoded == [input |-> <<>>, output |-> <<>>, calls |-> 0]

BinInit ==
    /\ binBuffer = <<>>
    /\ binHist = NoBinCall
    /\ encoded = NotEncoded

NoAccessor == [range |-> Range("UInt8", <<>>, TRUE), big |-> FALSE]

NoLoop == [op |-> "none", i |-> 0, temp |-> <<>>]

AccInit ==
    /\ rangeAccessor = NoAccessor
    /\ stream = <<>>
    /\ copied = <<>>
    /\ accLoop = NoLoop
    /\ accHist = [streamed |-> 0, copied |-> 0]

AdapterInit ==
    /\ particles = <<>>
    /\ adapted = <<>>

NoSlice == [type |-> "Float64", rank |-> 0, extent |-> 0, tuples |-> <<>>]

NotRead == [size |-> 0, how |-> "none", index |-> 0, value |-> 0]

CabanaInit ==
    /\ slice = NoSlice
    /\ it = <<>>
    /\ got = NotRead

Init == VtuInit /\ XmlInit /\ PvdInit /\ BinInit /\ AccInit /\ AdapterInit /\ CabanaInit

Building == writes = 0

SetCompression ==
    /\ Building
    /\ \E type \in CompressionTypes : setCompression(type)
    /\ UNCHANGED <<xmlVars, pvdVars, binVars, adapterVars, cabanaVars, accVars>>

SetPoints ==
    /\ Building
    /\ calls < MaxCalls
    /\ \E points \in Ranges : setPoints(points)
    /\ UNCHANGED <<xmlVars, pvdVars, binVars, adapterVars, cabanaVars, accVars>>

SetCells ==
    /\ Building
    /\ calls < MaxCalls
    /\ \E connectivity \in Ranges, offsets \in Ranges, types \in Ranges :
           setCells(connectivity, offsets, types)
    /\ UNCHANGED <<xmlVars, pvdVars, binVars, adapterVars, cabanaVars, accVars>>

AddPointData ==
    /\ Building
    /\ calls < MaxCalls
    /\ \E a \in Attributes : addPointData(a.name, a.data, a.comps)
    /\ UNCHANGED <<xmlVars, pvdVars, binVars, adapterVars, cabanaVars, accVars>>

AddCellData ==
    /\ Building
    /\ calls < MaxCalls
    /\ \E a \in Attributes : addCellData(a.name, a.data, a.comps)
    /\ UNCHANGED <<xmlVars, pvdVars, binVars, adapterVars, cabanaVars, accVars>>

NoGarbage == [crash |-> FALSE, garbage |-> Range("UInt8", <<>>, TRUE)]

WriteInputs ==
    LET using == compressionType # "None" /\ createCompressor(compressionType) # "null"
    IN  [openOk : BOOLEAN,
         failAt : IF using THEN 0..NumValid ELSE {0},
         ub : IF using /\ OutOfBounds
              THEN {[crash |-> TRUE, garbage |-> NoGarbage.garbage]}
                   \cup [crash : {FALSE}, garbage : Ranges]
              ELSE {NoGarbage},
         big : BOOLEAN]

Write ==
    /\ Building
    /\ \E in \in WriteInputs : write(in.openOk, in.failAt, in.ub, in.big)
    /\ UNCHANGED <<xmlVars, pvdVars, binVars, adapterVars, cabanaVars, accVars>>

Next == SetCompression \/ SetPoints \/ SetCells \/ AddPointData \/ AddCellData \/ Write

Spec == Init /\ [][Next]_vars

(***************************************************************************)
(* The text VtuWriter::write sends to the file, token by token as its      *)
(* XmlBuilder and its own `ofs <<` statements write it.  The bytes of the  *)
(* binary section are not text: one token stands for them.                 *)
(***************************************************************************)
\* writeArrayHeader(xml, info)
writeArrayHeaderXml(b, info) ==
    IF ~info.valid THEN b
    ELSE LET b1 == startElement(b, "DataArray")
             b2 == attribute(b1, "type", StringValue(info.typeName))
             b3 == attribute(b2, "Name", StringValue(info.name))
             b4 == attribute(b3, "NumberOfComponents", IntValue(info.numComponents))
             b5 == attribute(b4, "format", StringValue("appended"))
             b6 == attribute(b5, "offset", IntValue(info.offset))
         IN  endElement(b6)

RECURSIVE writeArrayHeaders(_, _)
writeArrayHeaders(b, infos) ==
    IF infos = <<>> THEN b
    ELSE writeArrayHeaders(writeArrayHeaderXml(b, Head(infos)), Tail(infos))

\* from the construction of xml to the compressor attribute
writeVtkFile(usingCompression) ==
    LET xml0 == XmlBuilder(2)
        v1 == startElement(xml0, "VTKFile")
        v2 == attribute(v1, "type", StringValue("UnstructuredGrid"))
        v3 == attribute(v2, "version", StringValue("1.0"))
        v4 == attribute(v3, "byte_order", StringValue("LittleEndian"))
        v5 == attribute(v4, "header_type", StringValue("UInt64"))
    IN  IF usingCompression
        THEN IF compressionType = "ZLib"
             THEN attribute(v5, "compressor", StringValue("vtkZLibDataCompressor"))
             ELSE IF compressionType = "LZ4"
                  THEN attribute(v5, "compressor", StringValue("vtkLZ4DataCompressor"))
                  ELSE v5
        ELSE v5

\* the scoped elements UnstructuredGrid and Piece, up to Piece's attributes
writePiece(b) ==
    attr(attr(scopedElement(scopedElement(b, "UnstructuredGrid"), "Piece"),
              "NumberOfPoints", IntValue(numberOfPoints)),
         "NumberOfCells", IntValue(numberOfCells))

\* a scoped element `name` holding the array headers of infos
writeSection(b, name, infos) ==
    ScopedElementEnd(writeArrayHeaders(scopedElement(b, name), infos))

\* the same, when there is anything registered for it
writeData(b, name, infos) == IF infos # <<>> THEN writeSection(b, name, infos) ELSE b

\* the scopes of Piece and UnstructuredGrid end; AppendedData up to ">_"
writeAppendedData(b) ==
    LET pieceEnd == ScopedElementEnd(b)
        gridEnd == ScopedElementEnd(pieceEnd)
        a1 == startElement(gridEnd, "AppendedData")
        a2 == attribute(a1, "encoding", StringValue("raw"))
    IN  writeRaw(a2, ">_")

BinarySection == "(binary section)"

\* the end of write leaving the root element open
writeClosingTags_noRoot(b) == Put(b, "</AppendedData>\n")

\* ofs << "</AppendedData>\n"; ofs << "</VTKFile>"; ofs is the builder's os_
writeClosingTags(b) == Put(Put(b, "</AppendedData>\n"), "</VTKFile>")

\* Everything write sent to the file is the os of the builder t.
IsTextOf(t, usingCompression, infos, npd, ncd) ==
    \E v \in {writeVtkFile(usingCompression)} :
    \E piece \in {writePiece(v)} :
    \E p \in {writeSection(piece, "Points", SubSeq(infos, 1, 1))} :
    \E c \in {writeSection(p, "Cells", SubSeq(infos, 2, 4))} :
    \E pd \in {writeData(c, "PointData", SubSeq(infos, 5, 4 + npd))} :
    \E cd \in {writeData(pd, "CellData", SubSeq(infos, 5 + npd, 4 + npd + ncd))} :
    \E a \in {writeAppendedData(cd)} :
        t = writeClosingTags(Put(a, BinarySection))

(***************************************************************************)
(* The specification of the document's text: the writer's build phase as   *)
(* in Spec, then a write whose file opens, on a little-endian host and     *)
(* with a codec that does not fail; the variable xml holds the XmlBuilder  *)
(* of the write, its os_ the text of the file.                             *)
(***************************************************************************)
TextInputs ==
    LET using == compressionType # "None" /\ createCompressor(compressionType) # "null"
    IN  IF using /\ OutOfBounds
        THEN [crash : {FALSE}, garbage : Ranges]
        ELSE {NoGarbage}

WriteText ==
    /\ Building
    /\ \E ub \in TextInputs : write(TRUE, 0, ub, FALSE)
    /\ IsTextOf(xml', last'.mode = "compressed",
                BlockList(pointsBlock', cellsConnBlock', cellsOffsetsBlock',
                          cellsTypesBlock', pointDataBlocks', cellDataBlocks'),
                Len(pointDataBlocks), Len(cellDataBlocks))
    /\ UNCHANGED <<xmlHist, pvdVars, binVars, adapterVars, cabanaVars, accVars>>

NextText ==
    SetCompression \/ SetPoints \/ SetCells \/ AddPointData \/ AddCellData \/ WriteText

SpecText == Init /\ [][NextText]_vars

(***************************************************************************)
(* The scenario of examples/basic_usage.cpp: one tetrahedron.  setPoints   *)
(* on the 12 coordinates of its 4 points, setCells on its one cell, then   *)
(* write with the compression type left at None.  An element value is the  *)
(* value's bit pattern read as an integer: 1.0f is 1065353216; the bit     *)
(* pattern of the double 1.0 does not fit the checker's integers, so the   *)
(* double coordinates are 12 zeros.                                        *)
(***************************************************************************)
TetraPoints ==
    { Range("Float32", <<0, 0, 0, 1065353216, 0, 0, 0, 1065353216, 0, 0, 0, 1065353216>>, TRUE),
      Range("Int32", <<0, 0, 0, 1, 0, 0, 0, 1, 0, 0, 0, 1>>, FALSE),
      Range("Float64", <<0, 0, 0, 0, 0, 0, 0, 0, 0, 0, 0, 0>>, TRUE) }

TetraConnectivity == { Range("Int32", <<0, 1, 2, 3>>, TRUE), Range("Int64", <<0, 1, 2, 3>>, FALSE) }

TetraOffsets == { Range("Int32", <<4>>, TRUE), Range("Int64", <<4>>, FALSE) }

TetraTypes == { Range("UInt8", <<10>>, TRUE) }      \* CellType::Tetra

TetraSetPoints ==
    /\ calls = 0
    /\ writes = 0
    /\ \E points \in TetraPoints : setPoints(points)
    /\ UNCHANGED <<xmlVars, pvdVars, binVars, adapterVars, cabanaVars, accVars>>

TetraSetCells ==
    /\ calls = 1
    /\ writes = 0
    /\ \E connectivity \in TetraConnectivity, offsets \in TetraOffsets, types \in TetraTypes :
           setCells(connectivity, offsets, types)
    /\ UNCHANGED <<xmlVars, pvdVars, binVars, adapterVars, cabanaVars, accVars>>

TetraWrite ==
    /\ calls = 2
    /\ writes = 0
    /\ \E in \in WriteInputs : write(in.openOk, in.failAt, in.ub, in.big)
    /\ UNCHANGED <<xmlVars, pvdVars, binVars, adapterVars, cabanaVars, accVars>>

NextTetra == TetraSetPoints \/ TetraSetCells \/ TetraWrite

SpecTetra == Init /\ [][NextTetra]_vars

(***************************************************************************)
(* The specification of a writer that is used on after a write: the        *)
(* registration calls, setCompression and write in any order, write        *)
(* included more than once.  Nothing in VtuWriter ends the build phase.    *)
(***************************************************************************)
RewriteSetCompression ==
    /\ writes < MaxWrites
    /\ \E type \in CompressionTypes : setCompression(type)
    /\ UNCHANGED <<xmlVars, pvdVars, binVars, adapterVars, cabanaVars, accVars>>

RewriteSetPoints ==
    /\ writes < MaxWrites
    /\ calls < MaxCalls
    /\ \E points \in Ranges : setPoints(points)
    /\ UNCHANGED <<xmlVars, pvdVars, binVars, adapterVars, cabanaVars, accVars>>

RewriteSetCells ==
    /\ writes < MaxWrites
    /\ calls < MaxCalls
    /\ \E connectivity \in Ranges, offsets \in Ranges, types \in Ranges :
           setCells(connectivity, offsets, types)
    /\ UNCHANGED <<xmlVars, pvdVars, binVars, adapterVars, cabanaVars, accVars>>

RewriteAddPointData ==
    /\ writes < MaxWrites
    /\ calls < MaxCalls
    /\ \E a \in Attributes : addPointData(a.name, a.data, a.comps)
    /\ UNCHANGED <<xmlVars, pvdVars, binVars, adapterVars, cabanaVars, accVars>>

RewriteAddCellData ==
    /\ writes < MaxWrites
    /\ calls < MaxCalls
    /\ \E a \in Attributes : addCellData(a.name, a.data, a.comps)
    /\ UNCHANGED <<xmlVars, pvdVars, binVars, adapterVars, cabanaVars, accVars>>

RewriteWrite ==
    /\ writes < MaxWrites
    /\ \E in \in WriteInputs : write(in.openOk, in.failAt, in.ub, in.big)
    /\ UNCHANGED <<xmlVars, pvdVars, binVars, adapterVars, cabanaVars, accVars>>

NextRewrite ==
    \/ RewriteSetCompression
    \/ RewriteSetPoints
    \/ RewriteSetCells
    \/ RewriteAddPointData
    \/ RewriteAddCellData
    \/ RewriteWrite

SpecRewrite == Init /\ [][NextRewrite]_vars

(***************************************************************************)
(* The specification of XmlBuilder: one builder, on which startElement,    *)
(* attribute, endElement and writeRaw are called in any order.  The        *)
(* history keeps, for every element started and not yet ended, its name,   *)
(* the number of elements started inside it and the number of ">" written  *)
(* to terminate its start tag, and for the last call what it wrote.        *)
(***************************************************************************)
XmlNames == {"A", "B"}

XmlAttributes == { [name |-> "id", value |-> IntValue(1)],
                   [name |-> "val", value |-> DoubleValue(31)] }

XmlRaw == {">_"}

\* what a call wrote: the strings of b2.os behind those of b.os
Written(b, b2) == SubSeq(b2.os, Len(b.os) + 1, Len(b2.os))

Count(str, ss) == Cardinality({i \in 1..Len(ss) : ss[i] = str})

XmlStartElement ==
    /\ xmlHist.calls < MaxXmlCalls
    /\ \E name \in XmlNames :
           LET b == startElement(xml, name)
               wrote == Written(xml, b)
               n == Len(xmlHist.open)
               open == IF n = 0 THEN <<>>
                       ELSE [xmlHist.open EXCEPT
                                ![n].children = @ + 1,
                                ![n].terminated = @ + Count(">", wrote)]
           IN  /\ xml' = b
               /\ xmlHist' = [open |-> Append(open, [name |-> name, children |-> 0,
                                                     terminated |-> 0]),
                              last |-> [op |-> "startElement", name |-> name,
                                        open |-> TRUE, children |-> 0,
                                        terminated |-> 0, wrote |-> wrote],
                              calls |-> xmlHist.calls + 1]
    /\ UNCHANGED <<vtuVars, pvdVars, binVars, adapterVars, cabanaVars, accVars>>

XmlAttribute ==
    /\ xmlHist.calls < MaxXmlCalls
    /\ \E a \in XmlAttributes :
           LET b == attribute(xml, a.name, a.value)
           IN  /\ xml' = b
               /\ xmlHist' = [xmlHist EXCEPT
                                 !.last = [NoXmlCall EXCEPT !.op = "attribute",
                                                            !.name = a.name,
                                                            !.wrote = Written(xml, b)],
                                 !.calls = @ + 1]
    /\ UNCHANGED <<vtuVars, pvdVars, binVars, adapterVars, cabanaVars, accVars>>

XmlEndElement ==
    /\ xmlHist.calls < MaxXmlCalls
    /\ LET b == endElement(xml)
           n == Len(xmlHist.open)
       IN  /\ xml' = b
           /\ xmlHist' = [open |-> SubSeq(xmlHist.open, 1, n - 1),
                          last |-> IF n = 0
                                   THEN [NoXmlCall EXCEPT !.op = "endElement",
                                                          !.wrote = Written(xml, b)]
                                   ELSE [op |-> "endElement",
                                         name |-> xmlHist.open[n].name,
                                         open |-> TRUE,
                                         children |-> xmlHist.open[n].children,
                                         terminated |-> xmlHist.open[n].terminated,
                                         wrote |-> Written(xml, b)],
                          calls |-> xmlHist.calls + 1]
    /\ UNCHANGED <<vtuVars, pvdVars, binVars, adapterVars, cabanaVars, accVars>>

XmlWriteRaw ==
    /\ xmlHist.calls < MaxXmlCalls
    /\ \E str \in XmlRaw :
           LET b == writeRaw(xml, str)
           IN  /\ xml' = b
               /\ xmlHist' = [xmlHist EXCEPT
                                 !.last = [NoXmlCall EXCEPT !.op = "writeRaw",
                                                            !.wrote = Written(xml, b)],
                                 !.calls = @ + 1]
    /\ UNCHANGED <<vtuVars, pvdVars, binVars, adapterVars, cabanaVars, accVars>>

VtuIdle == available = {} /\ VtuInit

InitXml == VtuIdle /\ XmlInit /\ PvdInit /\ BinInit /\ AccInit /\ AdapterInit /\ CabanaInit

NextXml == XmlStartElement \/ XmlAttribute \/ XmlEndElement \/ XmlWriteRaw

SpecXml == InitXml /\ [][NextXml]_vars

(***************************************************************************)
(* The specification of PvdWriter: one writer, on which addStep and save   *)
(* are called in any order until it is destroyed.  save opens filename_    *)
(* anew; when the ofstream does not open nothing is written and the file   *)
(* stays as it was.  The class declares no destructor.                     *)
(***************************************************************************)
Times == {1, 2, 10}                         \* 0.1, 0.2, 1.0

VtuFiles == {"step_0.vtu", "step_1.vtu"}

PvdAlive == pvdHist.last # "destroyed"

PvdAddStep ==
    /\ PvdAlive
    /\ Len(pvdHist.added) < MaxSteps
    /\ \E time \in Times, vtu_file \in VtuFiles :
           /\ steps' = addStep(steps, time, vtu_file)
           /\ pvdHist' = [pvdHist EXCEPT
                             !.added = Append(@, [time |-> time, file |-> vtu_file]),
                             !.last = "addStep"]
    /\ UNCHANGED <<pvdFile, vtuVars, xmlVars, binVars, adapterVars, cabanaVars, accVars>>

PvdSave ==
    /\ PvdAlive
    /\ \E openOk \in BOOLEAN :
           /\ pvdFile' = IF openOk THEN <<save(steps)>> ELSE pvdFile
           /\ pvdHist' = [pvdHist EXCEPT
                             !.saves = IF @ = 0 THEN 1 ELSE @,
                             !.last = IF openOk THEN "save" ELSE "save_failed"]
    /\ UNCHANGED <<steps, vtuVars, xmlVars, binVars, adapterVars, cabanaVars, accVars>>

PvdDestroy ==
    /\ PvdAlive
    /\ pvdHist' = [pvdHist EXCEPT !.last = "destroyed"]
    /\ UNCHANGED <<steps, pvdFile, vtuVars, xmlVars, binVars, adapterVars, cabanaVars, accVars>>

InitPvd == VtuIdle /\ XmlInit /\ PvdInit /\ BinInit /\ AccInit /\ AdapterInit /\ CabanaInit

NextPvd == PvdAddStep \/ PvdSave \/ PvdDestroy

SpecPvd == InitPvd /\ [][NextPvd]_vars

(***************************************************************************)
(* The specification of the byte-level helpers: write_le, append_data and  *)
(* append_range called in any order on one buffer, on a host of either     *)
(* byte order, while the buffer stays within MaxBuffer bytes.              *)
(***************************************************************************)
\* 0x12345678, 0x1234, -2, 255 and 0x0102 as a uint64_t
Scalars == { [type |-> "UInt32", value |-> 305419896],
             [type |-> "Int16", value |-> 4660],
             [type |-> "Int16", value |-> -2],
             [type |-> "UInt8", value |-> 255],
             [type |-> "UInt64", value |-> 258] }

\* std::span<int16_t> over {0x1234, 0x5678}, over {-2} and over nothing
Spans == { Range("Int16", <<4660, 22136>>, TRUE),
           Range("Int16", <<-2>>, TRUE),
           Range("UInt32", <<>>, TRUE) }

\* a std::list<uint16_t>
Lists == { Range("UInt16", <<258, 772>>, FALSE) }

BinWriteLe ==
    /\ \E v \in Scalars, big \in BOOLEAN :
           /\ Len(binBuffer) + SizeOf(v.type) <= MaxBuffer
           /\ binBuffer' = write_le(v.value, SizeOf(v.type), big, binBuffer)
           /\ binHist' = [op |-> "write_le", before |-> binBuffer, type |-> v.type,
                          vals |-> <<v.value>>]
    /\ UNCHANGED <<encoded, vtuVars, xmlVars, pvdVars, adapterVars, cabanaVars, accVars>>

BinAppendData ==
    /\ \E data \in Spans, big \in BOOLEAN :
           /\ Len(binBuffer) + size_bytes(data) <= MaxBuffer
           /\ binBuffer' = append_data(data, big, binBuffer)
           /\ binHist' = [op |-> "append_data", before |-> binBuffer, type |-> data.type,
                          vals |-> data.vals]
    /\ UNCHANGED <<encoded, vtuVars, xmlVars, pvdVars, adapterVars, cabanaVars, accVars>>

BinAppendRange ==
    /\ \E range \in Lists, big \in BOOLEAN :
           /\ Len(binBuffer) + size_bytes(range) <= MaxBuffer
           /\ binBuffer' = append_range(range, big, binBuffer)
           /\ binHist' = [op |-> "append_range", before |-> binBuffer, type |-> range.type,
                          vals |-> range.vals]
    /\ UNCHANGED <<encoded, vtuVars, xmlVars, pvdVars, adapterVars, cabanaVars, accVars>>

\* "Hello", "Mic", "Man", "Ma" and "M"
Texts == { <<72, 101, 108, 108, 111>>, <<77, 105, 99>>, <<77, 97, 110>>, <<77, 97>>, <<77>> }

\* base64_encode on a span over the buffer or over one of the texts
BinBase64Encode ==
    /\ encoded.calls < MaxEncodeCalls
    /\ \E input \in {binBuffer} \cup Texts :
           encoded' = [input |-> input, output |-> base64_encode(input),
                       calls |-> encoded.calls + 1]
    /\ UNCHANGED <<binBuffer, binHist, vtuVars, xmlVars, pvdVars, adapterVars, cabanaVars, accVars>>

InitBinary == VtuIdle /\ XmlInit /\ PvdInit /\ BinInit /\ AccInit /\ AdapterInit /\ CabanaInit

NextBinary == BinWriteLe \/ BinAppendData \/ BinAppendRange \/ BinBase64Encode

SpecBinary == InitBinary /\ [][NextBinary]_vars

(***************************************************************************)
(* The specification of RangeAccessor: one accessor over a range, on a     *)
(* host of either byte order; write_to_stream on one stream and write_to   *)
(* on one buffer, each up to MaxAccessorCalls times, one call at a time.   *)
(* A call whose code loops over the elements takes one step per iteration; *)
(* a call that copies the range's memory as one block takes one step.  The *)
(* ranges are those of the tests and lists of 8-byte elements whose        *)
(* encodings are exactly as long as the 4096 bytes at which the slow path  *)
(* flushes (512 elements), longer (513) and longer than twice that (1025). *)
(***************************************************************************)
\* a range of n elements 1, 2, ..., n
Counting(type, n, contiguous) == Range(type, [i \in 1..n |-> i], contiguous)

AccessorRanges ==
    { Counting("UInt64", n, FALSE) : n \in {0, 1, 512, 513, 1025} }
        \cup { Range("Int32", <<1, 2, 3, 4, 5>>, FALSE),     \* a std::list<int32_t>
               Range("UInt16", <<258, 772>>, FALSE),
               Range("Int32", <<10, 20>>, TRUE) }           \* a std::vector<int32_t>

AccIdle == accLoop.op = "none"

AccElements == Len(rangeAccessor.range.vals)

\* write_to_stream(os) is called: the fast path, or the slow path's loop begins
AccWriteToStream ==
    /\ AccIdle
    /\ accHist.streamed < MaxAccessorCalls
    /\ IF rangeAccessor.range.contiguous /\ ~rangeAccessor.big
       THEN /\ stream' = write_to_stream(rangeAccessor.range, rangeAccessor.big, stream)
            /\ accHist' = [accHist EXCEPT !.streamed = @ + 1]
            /\ UNCHANGED accLoop
       ELSE /\ accLoop' = [op |-> "write_to_stream", i |-> 1, temp |-> <<>>]
            /\ UNCHANGED <<stream, accHist>>
    /\ UNCHANGED <<rangeAccessor, copied, vtuVars, xmlVars, pvdVars, binVars, adapterVars,
                   cabanaVars>>

AccStreamIteration ==
    /\ accLoop.op = "write_to_stream"
    /\ accLoop.i <= AccElements
    /\ \E st \in {write_to_stream_iteration(rangeAccessor.range.vals[accLoop.i],
                                             SizeOf(rangeAccessor.range.type),
                                             rangeAccessor.big, FlushThreshold,
                                             [temp |-> accLoop.temp, os |-> stream])} :
           /\ stream' = st.os
           /\ accLoop' = [accLoop EXCEPT !.i = @ + 1, !.temp = st.temp]
    /\ UNCHANGED <<rangeAccessor, copied, accHist, vtuVars, xmlVars, pvdVars, binVars,
                   adapterVars, cabanaVars>>

AccStreamReturn ==
    /\ accLoop.op = "write_to_stream"
    /\ accLoop.i > AccElements
    /\ stream' = write_to_stream_rest([temp |-> accLoop.temp, os |-> stream])
    /\ accLoop' = NoLoop
    /\ accHist' = [accHist EXCEPT !.streamed = @ + 1]
    /\ UNCHANGED <<rangeAccessor, copied, vtuVars, xmlVars, pvdVars, binVars, adapterVars,
                   cabanaVars>>

\* write_to(buffer) is called: append_range's fast path, or its loop begins
AccWriteTo ==
    /\ AccIdle
    /\ accHist.copied < MaxAccessorCalls
    /\ IF rangeAccessor.range.contiguous
       THEN /\ copied' = write_to(rangeAccessor.range, rangeAccessor.big, copied)
            /\ accHist' = [accHist EXCEPT !.copied = @ + 1]
            /\ UNCHANGED accLoop
       ELSE /\ accLoop' = [op |-> "write_to", i |-> 1, temp |-> <<>>]
            /\ UNCHANGED <<copied, accHist>>
    /\ UNCHANGED <<rangeAccessor, stream, vtuVars, xmlVars, pvdVars, binVars, adapterVars,
                   cabanaVars>>

AccCopyIteration ==
    /\ accLoop.op = "write_to"
    /\ accLoop.i <= AccElements
    /\ copied' = write_le(rangeAccessor.range.vals[accLoop.i],
                          SizeOf(rangeAccessor.range.type), rangeAccessor.big, copied)
    /\ accLoop' = [accLoop EXCEPT !.i = @ + 1]
    /\ UNCHANGED <<rangeAccessor, stream, accHist, vtuVars, xmlVars, pvdVars, binVars,
                   adapterVars, cabanaVars>>

AccCopyReturn ==
    /\ accLoop.op = "write_to"
    /\ accLoop.i > AccElements
    /\ accLoop' = NoLoop
    /\ accHist' = [accHist EXCEPT !.copied = @ + 1]
    /\ UNCHANGED <<rangeAccessor, stream, copied, vtuVars, xmlVars, pvdVars, binVars,
                   adapterVars, cabanaVars>>

InitAccessor ==
    /\ VtuIdle /\ XmlInit /\ PvdInit /\ BinInit /\ AdapterInit /\ CabanaInit
    /\ rangeAccessor \in [range : AccessorRanges, big : BOOLEAN]
    /\ stream = <<>>
    /\ copied = <<>>
    /\ accLoop = NoLoop
    /\ accHist = [streamed |-> 0, copied |-> 0]

NextAccessor ==
    \/ AccWriteToStream \/ AccStreamIteration \/ AccStreamReturn
    \/ AccWriteTo \/ AccCopyIteration \/ AccCopyReturn

SpecAccessor == InitAccessor /\ [][NextAccessor]_vars

(***************************************************************************)
(* The specification of the field-projection adapter, after                *)
(* TEST(Adapter, AdaptAoS): a container of up to MaxParticles records,     *)
(* adapt on one of its members, then append_range of the view to an empty  *)
(* buffer.  A double is its bit pattern read as an integer; the masses are *)
(* the doubles whose bit patterns are 1, 2 and 3.                          *)
(***************************************************************************)
Particle == [mass : {1, 2, 3}, id : {10, 20}]

Containers == UNION { [1..n -> Particle] : n \in 0..MaxParticles }

Adapt ==
    /\ adapted = <<>>
    /\ \E member \in DOMAIN MemberTypes :
           adapted' = << [member |-> member, range |-> adapt(particles, member)] >>
    /\ UNCHANGED <<particles, vtuVars, xmlVars, pvdVars, binVars, cabanaVars, accVars>>

AdaptAppend ==
    /\ adapted # <<>>
    /\ binHist.op = "none"
    /\ \E big \in BOOLEAN :
           /\ binBuffer' = append_range(adapted[1].range, big, binBuffer)
           /\ binHist' = [op |-> "append_range", before |-> binBuffer,
                          type |-> adapted[1].range.type, vals |-> adapted[1].range.vals]
    /\ UNCHANGED <<encoded, adapterVars, vtuVars, xmlVars, pvdVars, cabanaVars, accVars>>

InitAdapter ==
    /\ VtuIdle /\ XmlInit /\ PvdInit /\ BinInit /\ AccInit /\ CabanaInit
    /\ particles \in Containers
    /\ adapted = <<>>

NextAdapter == Adapt \/ AdaptAppend

SpecAdapter == InitAdapter /\ [][NextAdapter]_vars

(***************************************************************************)
(* The specification of the flattening adapter: a slice of up to MaxTuples *)
(* tuples, of scalars or of arrays of 1 to 3 scalars; adapt gives the view *)
(* and an iterator at begin(); the iterator is then stepped, moved and     *)
(* read, by * and by [], at the positions of the view.  Every scalar of a  *)
(* slice is different: 10 * tuple + component + 1.                         *)
(***************************************************************************)
MakeSlice(rank, extent, m) ==
    [type |-> "Float64", rank |-> rank, extent |-> extent,
     tuples |-> [t \in 1..m |->
                    [c \in 1..(IF rank = 0 THEN 1 ELSE extent) |-> 10 * (t - 1) + c]]]

Slices == { MakeSlice(0, 0, m) : m \in 0..MaxTuples }
          \cup { MakeSlice(1, extent, m) : extent \in 1..3, m \in 0..MaxTuples }

CabanaAdapt ==
    /\ it = <<>>
    /\ it' = << CabanaBegin(adaptSlice(slice)) >>
    /\ got' = [NotRead EXCEPT !.size = CabanaSize(adaptSlice(slice))]
    /\ UNCHANGED <<slice, vtuVars, xmlVars, pvdVars, binVars, adapterVars, accVars>>

\* ++it, while it is before end()
CabanaIncrement ==
    /\ it # <<>>
    /\ it[1].idx < CabanaSize(slice)
    /\ it' = << Iterator(it[1].idx + 1) >>
    /\ UNCHANGED <<slice, got, vtuVars, xmlVars, pvdVars, binVars, adapterVars, accVars>>

\* --it, while it is behind begin()
CabanaDecrement ==
    /\ it # <<>>
    /\ it[1].idx > 0
    /\ it' = << Iterator(it[1].idx - 1) >>
    /\ UNCHANGED <<slice, got, vtuVars, xmlVars, pvdVars, binVars, adapterVars, accVars>>

\* *it, while it is before end(); the position was reached by stepping
CabanaDeref ==
    /\ it # <<>>
    /\ it[1].idx < CabanaSize(slice)
    /\ got' = [got EXCEPT !.how = "step", !.index = it[1].idx,
                           !.value = Deref(slice, it[1])]
    /\ UNCHANGED <<slice, it, vtuVars, xmlVars, pvdVars, binVars, adapterVars, accVars>>

\* begin()[n], for a position n of the view
CabanaIndex ==
    /\ it # <<>>
    /\ \E n \in 0..(CabanaSize(slice) - 1) :
           got' = [got EXCEPT !.how = "random", !.index = n,
                              !.value = IteratorAt(slice, CabanaBegin(slice), n)]
    /\ UNCHANGED <<slice, it, vtuVars, xmlVars, pvdVars, binVars, adapterVars, accVars>>

InitCabana ==
    /\ VtuIdle /\ XmlInit /\ PvdInit /\ BinInit /\ AccInit /\ AdapterInit
    /\ slice \in Slices
    /\ it = <<>>
    /\ got = NotRead

NextCabana ==
    CabanaAdapt \/ CabanaIncrement \/ CabanaDecrement \/ CabanaDeref \/ CabanaIndex

SpecCabana == InitCabana /\ [][NextCabana]_vars

(***************************************************************************)
(* What the properties below are stated with: the little-endian encoding   *)
(* as arithmetic, the codec's inverse, and readers of the written file.    *)
(***************************************************************************)
\* the w bytes of value, least significant first
EncodeLE(value, w) == [k \in 1..w |-> ShiftRight8(value, k - 1) % 256]

\* the little-endian encoding of a range's element sequence
EncodeRange(range) ==
    Flatten([i \in 1..Len(range.vals) |-> EncodeLE(range.vals[i], SizeOf(range.type))])

\* the inverse of the codec; <<-1>> when the bytes are not a codec output
Decompress(codec, bytes) ==
    IF bytes # <<>> /\ Head(bytes) = CodecMarker(codec) THEN Tail(bytes) ELSE <<-1>>

\* the n bytes of s after the first pos; <<-1>> when s does not hold them
Slice(s, pos, n) ==
    IF pos >= 0 /\ n >= 0 /\ pos + n <= Len(s) THEN SubSeq(s, pos + 1, pos + n) ELSE <<-1>>

\* the offset registration assigns to the r-th registered array
RECURSIVE RegistrationOffset(_)
RegistrationOffset(r) ==
    IF r <= 1 THEN 0
    ELSE RegistrationOffset(r - 1) + 8 + Len(EncodeRange(accessors[r - 1]))

Wrote == last.op = "write" /\ ret = "ok"
WroteFile == Wrote /\ file # <<>>
Doc == file[1]
Streamed == WroteFile /\ last.mode = "streaming"
\* a compressed write in which no compress call failed and every accessor
\* read was inside accessors_
Compressed == WroteFile /\ last.mode = "compressed"
CompressedClean == Compressed /\ last.failAt = 0 /\ ~OutOfBounds

\* the streaming layout of the registered arrays
StreamingLayout ==
    Flatten([k \in 1..Len(accessors) |->
                EncodeLE(size_bytes(accessors[k]), 8) \o EncodeRange(accessors[k])])

(***************************************************************************)
(* C1.  Streaming mode, compression None: the offset the schema declares   *)
(* for every array is the position in the binary section at which that     *)
(* array's 8-byte length header was written.                               *)
(***************************************************************************)
C1_StreamingOffsetsArePhysical ==
    (Streamed /\ compressionType = "None") =>
        \A i \in 1..Len(Doc.arrays) :
            LET a == Doc.arrays[i]
            IN  /\ a.reg \in 1..Len(Doc.segs)
                /\ Doc.segs[a.reg].src = a.reg
                /\ Doc.segs[a.reg].pos = a.offset
                /\ Slice(Doc.bin, a.offset, 8)
                       = EncodeLE(Len(EncodeRange(accessors[a.reg])), 8)

C1_Witness ==
    /\ Streamed
    /\ compressionType = "None"
    /\ Len(Doc.arrays) >= 2
    /\ \E i \in 1..Len(Doc.arrays) : Doc.arrays[i].offset > 8

(***************************************************************************)
(* C2.  Compressed mode: the offset the schema declares for every array    *)
(* is the position in the binary section at which that array's 32-byte     *)
(* block header was written.  The i-th array of the schema is the i-th     *)
(* valid block, whose header is the i-th one written.                      *)
(***************************************************************************)
C2_CompressedOffsetsArePhysical ==
    CompressedClean =>
        /\ Len(Doc.segs) = Len(Doc.arrays)
        /\ \A i \in 1..Len(Doc.arrays) : Doc.segs[i].pos = Doc.arrays[i].offset

(***************************************************************************)
(* C3.  setCells with size(offsets) # size(types) ends in an               *)
(* invalid-argument error and changes nothing of the writer: the accessor  *)
(* list, the cumulative offset, the cell count and the three cell blocks   *)
(* are as before the call.                                                 *)
(***************************************************************************)
C3_SetCellsMismatchChangesNothing ==
    [][ \A connectivity \in Ranges, offsets \in Ranges, types \in Ranges :
            (Len(offsets.vals) # Len(types.vals)
             /\ setCells(connectivity, offsets, types))
            => /\ ret' = "invalid_argument"
               /\ UNCHANGED <<accessors, currentOffset, numberOfCells,
                              cellsConnBlock, cellsOffsetsBlock, cellsTypesBlock>> ]_vars

C3_Witness ==
    /\ ret = "invalid_argument"
    /\ accessors # <<>>
    /\ ~cellsConnBlock.valid

(***************************************************************************)
(* C4.  Round trip: for each array of the schema, what the binary section  *)
(* holds at the array's declared offset decodes to the little-endian       *)
(* encoding of the elements registered with that array: behind an 8-byte   *)
(* length in streaming mode, behind a 32-byte header and through the       *)
(* codec's inverse in compressed mode.                                     *)
(***************************************************************************)
RoundTripStreaming(a) ==
    LET expected == EncodeRange(accessors[a.reg])
    IN  /\ Slice(Doc.bin, a.offset, 8) = EncodeLE(Len(expected), 8)
        /\ Slice(Doc.bin, a.offset + 8, Len(expected)) = expected

RoundTripCompressed(a) ==
    LET expected == EncodeRange(accessors[a.reg])
    IN  \E c \in 0..Len(Doc.bin) :
            /\ Slice(Doc.bin, a.offset + 24, 8) = EncodeLE(c, 8)
            /\ Decompress(compressionType, Slice(Doc.bin, a.offset + 32, c)) = expected

C4_RoundTrip ==
    /\ Streamed => \A i \in 1..Len(Doc.arrays) : RoundTripStreaming(Doc.arrays[i])
    /\ CompressedClean => \A i \in 1..Len(Doc.arrays) : RoundTripCompressed(Doc.arrays[i])

(***************************************************************************)
(* C5.  Streaming mode: the binary section is exactly, for each registered *)
(* array in registration order, the 8-byte little-endian size_bytes() and  *)
(* then that many payload bytes, the array's little-endian encoding.       *)
(***************************************************************************)
C5_StreamingLayout ==
    Streamed =>
        /\ Doc.bin = StreamingLayout
        /\ \A k \in 1..Len(accessors) :
               Len(EncodeRange(accessors[k])) = size_bytes(accessors[k])

C5_Witness ==
    /\ Streamed
    /\ Len(accessors) >= 2
    /\ \E k \in 1..Len(accessors) : ~accessors[k].contiguous
    /\ \E k \in 1..Len(accessors) : accessors[k].contiguous /\ accessors[k].vals # <<>>

(***************************************************************************)
(* C6.  Compressed mode: the binary section is exactly, for each array of  *)
(* the schema in order, a 32-byte header of four little-endian fields and  *)
(* then the codec's output for that array, compressed_size bytes of it.    *)
(***************************************************************************)
CompressedBlockOf(a) ==
    LET payload == EncodeRange(accessors[a.reg])
        output == compress(compressionType, payload)
    IN  EncodeLE(1, 8) \o EncodeLE(Len(payload), 8) \o EncodeLE(Len(payload), 8)
        \o EncodeLE(Len(output), 8) \o output

C6_CompressedLayout ==
    CompressedClean =>
        Doc.bin = Flatten([i \in 1..Len(Doc.arrays) |-> CompressedBlockOf(Doc.arrays[i])])

(***************************************************************************)
(* C7.  Compressed mode: every block header written has block_count 1,     *)
(* block_size and last_block_size the uncompressed byte size of its array  *)
(* and compressed_size the length of the codec's output for that array's   *)
(* payload (the empty output when the compress call failed).               *)
(***************************************************************************)
C7_CompressedHeaderFields ==
    (Compressed /\ ~OutOfBounds) =>
        /\ Len(Doc.segs) = Len(Doc.arrays)
        /\ \A i \in 1..Len(Doc.arrays) :
               LET payload == EncodeRange(accessors[Doc.arrays[i].reg])
                   output == IF last.failAt = i THEN <<>>
                             ELSE compress(compressionType, payload)
               IN  Slice(Doc.bin, Doc.segs[i].pos, 32)
                       = EncodeLE(1, 8) \o EncodeLE(Len(payload), 8)
                         \o EncodeLE(Len(payload), 8) \o EncodeLE(Len(output), 8)

(***************************************************************************)
(* C8.  Compression active and a compress call returns the empty buffer:   *)
(* write ends in an error and no file is written at the target path.       *)
(***************************************************************************)
C8_CodecFailureAbortsWrite ==
    (last.op = "write" /\ last.mode = "compressed" /\ last.failAt # 0)
        => (ret # "ok" /\ file = <<>>)

(***************************************************************************)
(* C9.  A compression type other than None whose codec is not compiled in: *)
(* write returns normally, runs in streaming mode, puts no compressor      *)
(* attribute on the root element, leaves every block's offset at the       *)
(* value registration gave it, and writes the streaming layout.            *)
(***************************************************************************)
C9_UnavailableCodecFallsBack ==
    (last.op = "write" /\ compressionType # "None" /\ compressionType \notin available) =>
        /\ ret = "ok"
        /\ last.mode = "streaming"
        /\ \A k \in 1..Len(Blocks) :
               Blocks[k].valid => Blocks[k].offset = RegistrationOffset(Blocks[k].reg)
        /\ file # <<>> =>
               /\ Doc.compressor = ""
               /\ \A i \in 1..Len(Doc.arrays) :
                      Doc.arrays[i].offset = RegistrationOffset(Doc.arrays[i].reg)
               /\ Doc.bin = StreamingLayout

C9_Witness ==
    /\ WroteFile
    /\ compressionType = "LZ4"
    /\ available = {"ZLib"}
    /\ Len(Doc.arrays) >= 2

(***************************************************************************)
(* C10.  The target path cannot be opened for writing: write does not      *)
(* return normally.                                                        *)
(***************************************************************************)
C10_OpenFailureIsAnError ==
    (last.op = "write" /\ ~last.opened) => ret # "ok"

(***************************************************************************)
(* C11.  The Piece element of a written file reports NumberOfPoints as the *)
(* size of the range of the most recent setPoints divided by 3, rounding   *)
(* down, and NumberOfCells as the size of the types range, which is the    *)
(* size of the offsets range, of the most recent successful setCells.      *)
(***************************************************************************)
C11_PieceCounts ==
    WroteFile =>
        /\ pointsBlock.valid =>
               Doc.NumberOfPoints = Len(accessors[pointsBlock.reg].vals) \div 3
        /\ cellsTypesBlock.valid =>
               /\ Doc.NumberOfCells = Len(accessors[cellsTypesBlock.reg].vals)
               /\ Doc.NumberOfCells = Len(accessors[cellsOffsetsBlock.reg].vals)

C11_Witness ==
    /\ WroteFile
    /\ pointsBlock.valid
    /\ cellsTypesBlock.valid
    /\ Len(accessors[pointsBlock.reg].vals) = 3
    /\ Doc.NumberOfPoints = 1
    /\ Doc.NumberOfCells = 3

(***************************************************************************)
(* C13.  A written file has a PointData element exactly when addPointData  *)
(* was called at least once and a CellData element exactly when            *)
(* addCellData was; the element holds one DataArray per call, in the order *)
(* of the calls.  Each call appends one block, named as the call names it, *)
(* to its list and no other step changes the names in the lists; the       *)
(* arrays of the element are the blocks of the list, in order.             *)
(***************************************************************************)
SectionArrays(section) == SelectSeq(Doc.arrays, LAMBDA a : a.section = section)

BlockNames(blocks) == [i \in 1..Len(blocks) |-> blocks[i].name]

SectionIsList(section, blocks) ==
    LET arrays == SectionArrays(section)
    IN  /\ Len(arrays) = Len(blocks)
        /\ \A i \in 1..Len(arrays) :
               /\ arrays[i].Name = blocks[i].name
               /\ arrays[i].reg = blocks[i].reg
               /\ arrays[i].NumberOfComponents = blocks[i].numComponents
        /\ \A i, j \in 1..Len(arrays) : i < j => arrays[i].reg < arrays[j].reg

C13_Emitted ==
    WroteFile =>
        /\ Doc.PointData <=> pointDataBlocks # <<>>
        /\ Doc.CellData <=> cellDataBlocks # <<>>
        /\ SectionIsList("PointData", pointDataBlocks)
        /\ SectionIsList("CellData", cellDataBlocks)

C13_Calls ==
    /\ \A a \in Attributes :
           addPointData(a.name, a.data, a.comps) =>
               /\ BlockNames(pointDataBlocks') = Append(BlockNames(pointDataBlocks), a.name)
               /\ cellDataBlocks' = cellDataBlocks
    /\ \A a \in Attributes :
           addCellData(a.name, a.data, a.comps) =>
               /\ BlockNames(cellDataBlocks') = Append(BlockNames(cellDataBlocks), a.name)
               /\ pointDataBlocks' = pointDataBlocks
    /\ (\A a \in Attributes : ~addPointData(a.name, a.data, a.comps))
           => BlockNames(pointDataBlocks') = BlockNames(pointDataBlocks)
    /\ (\A a \in Attributes : ~addCellData(a.name, a.data, a.comps))
           => BlockNames(cellDataBlocks') = BlockNames(cellDataBlocks)

C13_AttributeElements == []C13_Emitted /\ [][C13_Calls]_vars

C13_Witness ==
    /\ WroteFile
    /\ Len(pointDataBlocks) = 2
    /\ pointDataBlocks[1].name # pointDataBlocks[2].name
    /\ Doc.PointData
    /\ ~Doc.CellData

(***************************************************************************)
(* C14.  The root element of a written file has a compressor attribute     *)
(* exactly when the write ran in compressed mode, that is when a type      *)
(* other than None is configured and its codec is compiled in; its value   *)
(* is vtkZLibDataCompressor for ZLib and vtkLZ4DataCompressor for LZ4.     *)
(* The absent attribute is the empty string here.                          *)
(***************************************************************************)
C14_CompressorAttribute ==
    WroteFile =>
        LET active == compressionType # "None" /\ compressionType \in available
        IN  /\ active <=> last.mode = "compressed"
            /\ Doc.compressor # "" <=> active
            /\ (active /\ compressionType = "ZLib") => Doc.compressor = "vtkZLibDataCompressor"
            /\ (active /\ compressionType = "LZ4") => Doc.compressor = "vtkLZ4DataCompressor"

C14_Witness ==
    /\ WroteFile
    /\ last.mode = "compressed"
    /\ compressionType = "LZ4"
    /\ Doc.compressor = "vtkLZ4DataCompressor"

(***************************************************************************)
(* C12.  The tetrahedron scenario, written in streaming mode: the file     *)
(* reports NumberOfPoints 4 and NumberOfCells 1 and has exactly one array  *)
(* named "connectivity".  As stated, the declared offset of that array is  *)
(* 0; as the writer does it, the array at offset 0 is Points, registered   *)
(* first, and connectivity is declared behind it, at 8 plus the byte size  *)
(* of the 12 coordinates (56 for 4-byte, 104 for 8-byte coordinates).      *)
(***************************************************************************)
ArraysNamed(name) == SelectSeq(Doc.arrays, LAMBDA a : a.Name = name)

TetraWritten == Streamed /\ calls = 2 /\ pointsBlock.valid /\ cellsConnBlock.valid

C12_TetraConnectivityAtZero ==
    TetraWritten =>
        /\ Doc.NumberOfPoints = 4
        /\ Doc.NumberOfCells = 1
        /\ Len(ArraysNamed("connectivity")) = 1
        /\ ArraysNamed("connectivity")[1].offset = 0

C12_TetraConnectivityBehindPoints ==
    TetraWritten =>
        /\ Doc.NumberOfPoints = 4
        /\ Doc.NumberOfCells = 1
        /\ Len(ArraysNamed("connectivity")) = 1
        /\ Len(ArraysNamed("Points")) = 1
        /\ ArraysNamed("Points")[1].offset = 0
        /\ ArraysNamed("connectivity")[1].offset
               = 8 + 12 * SizeOf(ArraysNamed("Points")[1].type)
        /\ Slice(Doc.bin, ArraysNamed("connectivity")[1].offset, 8)
               = EncodeLE(4 * SizeOf(ArraysNamed("connectivity")[1].type), 8)

C12_Witness ==
    /\ TetraWritten
    /\ Len(accessors) = 4
    /\ accessors[1].type = "Float64"
    /\ ArraysNamed("connectivity")[1].offset = 104

(***************************************************************************)
(* C15.  After addStep calls and no save call, the index file exists and   *)
(* has one entry for every step added so far.                              *)
(***************************************************************************)
RECURSIVE Join(_)
Join(ss) == IF ss = <<>> THEN "" ELSE Head(ss) \o Join(Tail(ss))

TimeText(time) ==
    CASE time = 1  -> "0.1"
      [] time = 2  -> "0.2"
      [] time = 10 -> "1"

DataSetText(step) ==
    "    <DataSet timestep=\"" \o TimeText(step.time)
        \o "\" group=\"\" part=\"0\" file=\"" \o step.file \o "\"/>\n"

\* the index file of the steps added: the root element of type Collection,
\* in it one Collection element, in it one self-closing DataSet per step
CollectionText(added) ==
    "<VTKFile type=\"Collection\" version=\"1.0\" byte_order=\"LittleEndian\""
        \o " header_type=\"UInt64\">\n"
    \o (IF added = <<>>
        THEN "  <Collection/>\n"
        ELSE "  <Collection>\n"
             \o Join([i \in 1..Len(added) |-> DataSetText(added[i])])
             \o "  </Collection>\n")
    \o "</VTKFile>\n"

C15_AddStepUpdatesFile ==
    (pvdHist.added # <<>> /\ pvdHist.saves = 0) =>
        /\ pvdFile # <<>>
        /\ Join(pvdFile[1]) = CollectionText(pvdHist.added)

(***************************************************************************)
(* C16.  After a save that opened the file, the file is the root VTKFile   *)
(* element of type Collection holding one Collection element, which holds  *)
(* exactly one self-closing DataSet element per addStep call made, in the  *)
(* order of the calls, with that call's timestep and file.                 *)
(***************************************************************************)
C16_SaveFormat ==
    pvdHist.last = "save" =>
        /\ pvdFile # <<>>
        /\ Join(pvdFile[1]) = CollectionText(pvdHist.added)

C16_Witness ==
    /\ pvdHist.last = "save"
    /\ Len(pvdHist.added) = 2
    /\ pvdHist.added[1].time = 10
    /\ pvdHist.added[2].time = 1
    /\ pvdHist.added[1].file # pvdHist.added[2].file

(***************************************************************************)
(* C17.  endElement on an element inside which no element was started     *)
(* writes the self-closing "/>" and no end tag; on an element inside which *)
(* at least one element was started it writes the end tag "</Name>", and   *)
(* the start tag of that element was terminated by ">" exactly once.       *)
(***************************************************************************)
NonBlank(ss) == SelectSeq(ss, LAMBDA str : str # " " /\ str # "\n")

C17_SelfClosingOrEndTag ==
    (xmlHist.last.op = "endElement" /\ xmlHist.last.open) =>
        IF xmlHist.last.children = 0
        THEN /\ NonBlank(xmlHist.last.wrote) = <<"/>">>
             /\ xmlHist.last.terminated = 0
        ELSE /\ NonBlank(xmlHist.last.wrote) = <<"</" \o xmlHist.last.name \o ">">>
             /\ xmlHist.last.terminated = 1

C17_Witness ==
    /\ xmlHist.last.op = "endElement"
    /\ xmlHist.last.open
    /\ xmlHist.last.children = 2
    /\ xmlHist.last.name = "A"
    /\ Count("/>", xml.os) = 2
    /\ Count("</A>", xml.os) = 1

(***************************************************************************)
(* C18.  adapt(container, member) over N records yields exactly N values,  *)
(* the i-th the selected member of the i-th record, and appending it to an *)
(* empty buffer gives exactly N * sizeof(member) bytes.                    *)
(***************************************************************************)
SizeOfMember(member) == IF member = "mass" THEN 8 ELSE 4    \* double, int

C18_AdaptProjects ==
    adapted # <<>> =>
        LET member == adapted[1].member
            range == adapted[1].range
        IN  /\ Len(range.vals) = Len(particles)
            /\ \A i \in 1..Len(particles) : range.vals[i] = particles[i][member]
            /\ binHist.op = "append_range" =>
                   Len(binBuffer) = Len(particles) * SizeOfMember(member)

C18_Witness ==
    /\ adapted # <<>>
    /\ adapted[1].member = "mass"
    /\ Len(particles) = 2
    /\ particles[1].mass # particles[2].mass
    /\ binHist.op = "append_range"
    /\ Len(binBuffer) = 16

(***************************************************************************)
(* C19.  The flattening adapter over a slice of M tuples of width W (W = 1 *)
(* for a slice of scalars) has size M * W, and the element read at flat    *)
(* index i, 0 <= i < M * W, is the scalar at tuple i / W, component i % W  *)
(* of the slice, whether the index was reached by stepping the iterator    *)
(* and read with * or read with [] from begin().  That scalar is           *)
(* 10 * (i / W) + (i % W) + 1 in the slices of the specification.          *)
(***************************************************************************)
Width(s) == IF s.rank = 0 THEN 1 ELSE s.extent

C19_FlattenIsRowMajor ==
    it # <<>> =>
        LET m == Len(slice.tuples)
            w == Width(slice)
        IN  /\ got.size = m * w
            /\ got.how # "none" =>
                   /\ got.index \in 0..(m * w - 1)
                   /\ got.value = slice.tuples[(got.index \div w) + 1][(got.index % w) + 1]
                   /\ got.value = 10 * (got.index \div w) + (got.index % w) + 1

C19_Witness ==
    /\ it # <<>>
    /\ slice.rank = 1
    /\ slice.extent = 3
    /\ Len(slice.tuples) = 2
    /\ got.how = "step"
    /\ got.index = 4
    /\ got.value = 12

(***************************************************************************)
(* C20.  write_le(value, buffer) appends exactly sizeof(T) bytes, the k-th *)
(* of them (k from 0) being (value >> 8k) mod 256, and leaves the bytes    *)
(* the buffer held unchanged; append_data over a sequence appends the      *)
(* encodings of its elements, in order.  On hosts of either byte order.    *)
(***************************************************************************)
C20_WriteLeIsLittleEndian ==
    LET w == SizeOf(binHist.type)
        n == Len(binHist.before)
    IN  /\ binHist.op = "write_le" =>
               /\ Len(binBuffer) = n + w
               /\ SubSeq(binBuffer, 1, n) = binHist.before
               /\ \A k \in 0..(w - 1) :
                      binBuffer[n + k + 1] = ShiftRight8(binHist.vals[1], k) % 256
        /\ binHist.op = "append_data" =>
               binBuffer = binHist.before
                           \o Flatten([i \in 1..Len(binHist.vals) |->
                                          EncodeLE(binHist.vals[i], w)])

C20_Witness ==
    /\ binHist.op = "write_le"
    /\ binHist.vals = <<305419896>>
    /\ binHist.before = <<52, 18, 120, 86>>
    /\ binBuffer = <<52, 18, 120, 86, 120, 86, 52, 18>>

(***************************************************************************)
(* C22.  Registration gives each new block the cumulative offset at the    *)
(* time of the call and advances the cumulative offset by 8 plus the byte  *)
(* size of the data registered.  So, after any registration calls and      *)
(* before a write: the block registered first has offset 0, a block's      *)
(* offset is the offset of the block registered just before it plus 8 plus *)
(* that block's byte size, and the cumulative offset is the sum of         *)
(* 8 + size_bytes over everything registered.                              *)
(***************************************************************************)
C22_RegistrationOffsets ==
    (Alive /\ writes = 0) =>
        /\ \A k \in 1..Len(Blocks) :
               Blocks[k].valid =>
                   /\ Blocks[k].reg \in 1..Len(accessors)
                   /\ Blocks[k].reg = 1 => Blocks[k].offset = 0
                   /\ Blocks[k].offset = RegistrationOffset(Blocks[k].reg)
        /\ \A k, j \in 1..Len(Blocks) :
               (Blocks[k].valid /\ Blocks[j].valid /\ Blocks[j].reg = Blocks[k].reg + 1) =>
                   Blocks[j].offset
                       = Blocks[k].offset + 8 + size_bytes(accessors[Blocks[k].reg])
        /\ currentOffset = RegistrationOffset(Len(accessors) + 1)

C22_Witness ==
    /\ Alive
    /\ writes = 0
    /\ Len(accessors) = 4
    /\ pointDataBlocks # <<>>
    /\ pointDataBlocks[1].offset = 0
    /\ cellsConnBlock.valid
    /\ cellsConnBlock.offset = 12
    /\ currentOffset > cellsTypesBlock.offset + 8

(***************************************************************************)
(* C23.  A compressed write gives the blocks, taken in the order Points,   *)
(* connectivity, offsets, types, point data, cell data, the offsets of a   *)
(* running sum: 0 for the first registered block and, for each later one,  *)
(* the offset of the block before it plus 32 plus the compressed size of   *)
(* the block before it, the size its header carries; the schema declares   *)
(* these offsets and the writer's blocks hold them after the write.        *)
(***************************************************************************)
RECURSIVE DecodeLE(_)
DecodeLE(bs) == IF bs = <<>> THEN 0 ELSE Head(bs) + 256 * DecodeLE(Tail(bs))

\* the compressed_size field of the i-th block header written
CompressedSizeField(i) == DecodeLE(Slice(Doc.bin, Doc.segs[i].pos + 24, 8))

C23_PrePassRunningSum ==
    Compressed =>
        /\ Len(Doc.segs) = Len(Doc.arrays)
        /\ Len(Doc.arrays) = NumValid
        /\ \A i \in 1..Len(Doc.arrays) :
               /\ Doc.arrays[i].offset
                      = IF i = 1 THEN 0
                        ELSE Doc.arrays[i - 1].offset + 32 + CompressedSizeField(i - 1)
               /\ Blocks[Doc.arrays[i].blk].offset = Doc.arrays[i].offset
               /\ \A j \in 1..Len(Doc.arrays) : i < j => Doc.arrays[i].blk < Doc.arrays[j].blk

C23_Witness ==
    /\ Compressed
    /\ last.failAt = 0
    /\ Len(Doc.arrays) = 4
    /\ Doc.arrays[2].offset = 32 + 4
    /\ Doc.arrays[4].offset > Doc.arrays[3].offset

(***************************************************************************)
(* C24.  In a written file, the DataArray elements of the schema come in   *)
(* the order in which their blocks lie in the binary section: of two       *)
(* arrays, the one earlier in the schema has its block earlier in the      *)
(* binary section.  The block of an array is the one written for the       *)
(* accessor registered with it in streaming mode, and the one written for  *)
(* it by the emission pass in compressed mode.                             *)
(***************************************************************************)
BlockPosition(i) ==
    IF last.mode = "streaming" THEN Doc.segs[Doc.arrays[i].reg].pos ELSE Doc.segs[i].pos

C24_SchemaOrderIsBinaryOrder ==
    WroteFile =>
        \A i, j \in 1..Len(Doc.arrays) : i < j => BlockPosition(i) < BlockPosition(j)

(***************************************************************************)
(* C25.  The writer's blocks, in the order Points, connectivity, offsets,  *)
(* types, point data, cell data, and its accessors are lists of the same   *)
(* length, and the k-th valid block was registered with the k-th accessor. *)
(***************************************************************************)
ValidBlocks == SelectSeq(Blocks, LAMBDA b : b.valid)

C25_BlocksAndAccessorsCoIndexed ==
    Alive =>
        /\ Len(ValidBlocks) = Len(accessors)
        /\ \A k \in 1..Len(ValidBlocks) : ValidBlocks[k].reg = k

(***************************************************************************)
(* C30.  Every DataArray of the PointData and CellData elements of a       *)
(* written file declares a component count of at least 1.                  *)
(***************************************************************************)
C30_ComponentCountAtLeastOne ==
    WroteFile =>
        \A i \in 1..Len(Doc.arrays) :
            Doc.arrays[i].section \in {"PointData", "CellData"}
                => Doc.arrays[i].NumberOfComponents >= 1

(***************************************************************************)
(* C26.  In a compressed write every valid block is materialized and       *)
(* compressed and has its offset rewritten before the output file is       *)
(* opened and before anything is written to it; after the file is opened   *)
(* nothing is compressed and no offset changes, so the offsets the schema  *)
(* declares are the ones the blocks hold when the write returns.           *)
(***************************************************************************)
EventsOf(kind) == {i \in 1..Len(last.trace) : last.trace[i] = kind}

C26_PrePassBeforeOpen ==
    (last.op = "write" /\ last.mode = "compressed" /\ ret = "ok") =>
        /\ Cardinality(EventsOf("open")) = 1
        /\ Cardinality(EventsOf("materialize")) = NumValid
        /\ Cardinality(EventsOf("compress")) = NumValid
        /\ Cardinality(EventsOf("offset")) = NumValid
        /\ \A i \in EventsOf("materialize") \cup EventsOf("compress") \cup EventsOf("offset") :
               \A j \in EventsOf("open") \cup EventsOf("write") : i < j
        /\ \A i \in EventsOf("open") : \A j \in EventsOf("write") : i < j
        /\ last.opened =>
               \A i \in 1..Len(Doc.arrays) :
                   Blocks[Doc.arrays[i].blk].offset = Doc.arrays[i].offset

C26_Witness ==
    /\ last.op = "write"
    /\ last.mode = "compressed"
    /\ ret = "ok"
    /\ last.opened
    /\ NumValid = 4
    /\ Len(last.trace) = 12 + 1 + 6
    /\ last.trace[12] = "offset"
    /\ last.trace[13] = "open"

(***************************************************************************)
(* C27.  A streaming-mode write changes nothing of the writer: the blocks  *)
(* (names, type names, component counts, offsets), the accessor list, the  *)
(* cumulative offset and the point and cell counts are after the write     *)
(* what they were before it.                                               *)
(***************************************************************************)
C27_StreamingWriteChangesNothing ==
    [][(writes' = writes + 1 /\ last'.mode = "streaming")
           => UNCHANGED <<writerVars, compressionType>>]_vars

C27_Witness ==
    /\ Streamed
    /\ Len(accessors) = 4
    /\ pointsBlock.valid
    /\ cellsTypesBlock.valid
    /\ cellsTypesBlock.offset > 0
    /\ currentOffset > cellsTypesBlock.offset

(***************************************************************************)
(* C21.  base64_encode of n bytes returns 4 * ceil(n / 3) characters: all  *)
(* but the last (3 - n mod 3) mod 3 of them are characters of the standard *)
(* alphabet A-Z a-z 0-9 + /, and those last ones are '='.  The empty input *)
(* gives the empty string.                                                 *)
(***************************************************************************)
Alphabet == { lookup[k] : k \in 1..64 }

Padding(n) == (3 - (n % 3)) % 3

C21_Base64LengthAndPadding ==
    encoded.calls > 0 =>
        LET n == Len(encoded.input)
            out == encoded.output
        IN  /\ Len(out) = 4 * ((n + 2) \div 3)
            /\ Cardinality(Alphabet) = 64
            /\ "=" \notin Alphabet
            /\ \A k \in 1..Len(out) :
                   IF k > Len(out) - Padding(n) THEN out[k] = "=" ELSE out[k] \in Alphabet
            /\ n = 0 => out = <<>>

C21_Witness ==
    /\ encoded.calls > 0
    /\ encoded.input = <<72, 101, 108, 108, 111>>
    /\ encoded.output = <<"S", "G", "V", "s", "b", "G", "8", "=">>

(***************************************************************************)
(* C29.  write_to_stream on a range of n elements of type T, contiguous or *)
(* not, writes exactly size_bytes() = n * sizeof(T) bytes to the stream:   *)
(* the little-endian encodings of the elements, one after the other in     *)
(* iteration order.  They are the bytes write_to appends to a buffer.      *)
(* This holds for n = 0 and for encodings shorter than, as long as and     *)
(* longer than the 4096 bytes at which the slow path flushes.              *)
(***************************************************************************)
\* the k-th byte of the little-endian encodings of the range's elements
LittleEndianByte(range, k) ==
    LET w == SizeOf(range.type)
    IN  ShiftRight8(range.vals[((k - 1) \div w) + 1], (k - 1) % w) % 256

\* the byte sequence s is `times` copies of the range's encoding
IsEncodingOf(s, range, times) ==
    LET n == Len(range.vals) * SizeOf(range.type)
    IN  /\ Len(s) = times * n
        /\ \A k \in 1..Len(s) : s[k] = LittleEndianByte(range, ((k - 1) % n) + 1)

C29_WriteToStreamIsExact ==
    LET range == rangeAccessor.range
        w == SizeOf(range.type)
    IN  /\ AccIdle =>
               /\ IsEncodingOf(stream, range, accHist.streamed)
               /\ Len(stream) = accHist.streamed * size_bytes(range)
               /\ size_bytes(range) = Len(range.vals) * w
               /\ accHist.streamed = accHist.copied => stream = copied
        /\ accLoop.op = "write_to_stream" =>
               /\ Len(accLoop.temp) < FlushThreshold
               /\ Len(stream) + Len(accLoop.temp)
                      = accHist.streamed * size_bytes(range) + (accLoop.i - 1) * w

C29_Witness ==
    /\ AccIdle
    /\ ~rangeAccessor.range.contiguous
    /\ Len(rangeAccessor.range.vals) = 513
    /\ accHist.streamed = 1
    /\ Len(stream) = 4104
    /\ Len(stream) > FlushThreshold
    /\ SubSeq(stream, 4089, 4104) = <<0, 2, 0, 0, 0, 0, 0, 0, 1, 2, 0, 0, 0, 0, 0, 0>>

(***************************************************************************)
(* C28.  In the text of a written file every element the writer opens      *)
(* (VTKFile, UnstructuredGrid, Piece, Points, Cells, PointData, CellData,  *)
(* DataArray, AppendedData) is closed exactly once and the elements are    *)
(* properly nested: every start tag is ended by ">" or "/>", every end tag *)
(* and every "/>" closes the innermost element still open, and nothing is  *)
(* open at the end of the text.  This holds in streaming and in compressed *)
(* mode and for every set of arrays registered.                            *)
(***************************************************************************)
ElementNames == {"VTKFile", "UnstructuredGrid", "Piece", "Points", "Cells", "PointData",
                 "CellData", "DataArray", "AppendedData"}

Text == xml.os

StartOf(name) == "<" \o name

EndTagsOf(name) == {"</" \o name \o ">", "</" \o name \o ">\n"}

StartTokens == { StartOf(name) : name \in ElementNames }

EndTokens == UNION { EndTagsOf(name) : name \in ElementNames }

\* the tokens that end a start tag; "/>" also closes the element
TagEndTokens == {">", ">_", "/>"}

\* the tokens that are neither markup nor attributes
Fillers == {" ", "\n", BinarySection}

\* the text without its fillers
Markup == SelectSeq(Text, LAMBDA t : t \notin Fillers)

IsAttribute(t) == t \notin StartTokens \cup EndTokens \cup TagEndTokens

\* m is well formed: every start tag is a start token, attributes and then
\* ">", ">_" or "/>"; every end tag closes the innermost element open, which
\* has its name; nothing is open at the end.  open[k] is the number of
\* elements open after the k-th token.
WellFormed(m) ==
    \E open \in {[k \in 0..Len(m) |->
                    Cardinality({j \in 1..k : m[j] \in StartTokens})
                        - Cardinality({j \in 1..k : m[j] \in EndTokens \cup {"/>"}})]} :
        /\ open[Len(m)] = 0
        /\ \A k \in 1..Len(m) :
               /\ open[k] >= 0
               /\ (m[k] \in StartTokens \/ IsAttribute(m[k])) =>
                      k < Len(m) /\ (IsAttribute(m[k + 1]) \/ m[k + 1] \in TagEndTokens)
               /\ (m[k] \in TagEndTokens \/ IsAttribute(m[k])) =>
                      k > 1 /\ (IsAttribute(m[k - 1]) \/ m[k - 1] \in StartTokens)
               /\ m[k] \in EndTokens =>
                      \E j \in 1..(k - 1) :
                          /\ m[j] \in StartTokens
                          /\ open[j] = open[k - 1]
                          /\ \A i \in (j + 1)..(k - 1) :
                                 m[i] \in StartTokens => open[i] # open[k - 1]
                          /\ \E name \in ElementNames :
                                 m[j] = StartOf(name) /\ m[k] \in EndTagsOf(name)

C28_ElementsClosedAndNested ==
    (last.op = "write" /\ ret = "ok" /\ last.opened /\ Text # <<>>) =>
        \E m \in {Markup} :
            /\ WellFormed(m)
            /\ m[1] = StartOf("VTKFile")
            /\ \A name \in {"VTKFile", "UnstructuredGrid", "Piece", "Points", "Cells",
                              "AppendedData"} : Count(StartOf(name), m) = 1
            /\ Count(StartOf("PointData"), m) = (IF pointDataBlocks # <<>> THEN 1 ELSE 0)
            /\ Count(StartOf("CellData"), m) = (IF cellDataBlocks # <<>> THEN 1 ELSE 0)
            /\ Count(StartOf("DataArray"), m) = Len(Doc.arrays)

C28_Witness ==
    /\ last.op = "write"
    /\ last.mode = "compressed"
    /\ Text # <<>>
    /\ Text[1] = "<VTKFile"
    /\ Text[Len(Text)] = "</VTKFile>"
    /\ Cardinality({k \in 1..Len(Text) : Text[k] = StartOf("DataArray")}) = 2
    /\ \E k \in 1..Len(Text) : Text[k] = "<PointData"
    /\ \E k \in 1..Len(Text) : Text[k] = "<CellData"
    /\ \E k \in 1..Len(Text) : Text[k] = "<Points" /\ Text[k + 1] = "/>"

(***************************************************************************)
(* C31.  endElement closes the element started last among those still      *)
(* open: it takes that element's name off the stack, lowers the depth by   *)
(* one, leaves the builder in Content, and what it writes is "/>" or the   *)
(* end tag of that very element.  With no element open it writes nothing   *)
(* and leaves the whole builder (state, depth, stack, output) as it was.    *)
(***************************************************************************)
C31_EndElementIsLifo ==
    [][(xmlHist'.last.op = "endElement" /\ xmlHist'.calls = xmlHist.calls + 1) =>
          IF xmlHist.open = <<>>
          THEN /\ xml.element_stack = <<>>
               /\ xml' = xml
               /\ xmlHist'.last.wrote = <<>>
          ELSE LET n == Len(xmlHist.open)
                   top == xmlHist.open[n].name
               IN  /\ Len(xml.element_stack) = n
                   /\ xml.element_stack[n] = top
                   /\ xml'.element_stack = SubSeq(xml.element_stack, 1, n - 1)
                   /\ xml'.depth = xml.depth - 1
                   /\ xml'.state = "Content"
                   /\ NonBlank(xmlHist'.last.wrote) \in {<<"/>">>, <<"</" \o top \o ">">>}
                   /\ xml'.os = xml.os \o xmlHist'.last.wrote
      ]_vars

\* endElement (no element open), A, B, A, endElement, endElement: the last
\* call closes B, the inner A having been closed before it
C31_Witness ==
    /\ xmlHist.calls = 6
    /\ xmlHist.last.op = "endElement"
    /\ xmlHist.last.name = "B"
    /\ xml.element_stack = <<"A">>
    /\ xml.depth = 1
    /\ NonBlank(xml.os) = <<"<A", ">", "<B", ">", "<A", "/>", "</B>">>

(***************************************************************************)
(* C37.  After any sequence of calls on an XmlBuilder, depth_ is the       *)
(* number of names on element_stack_, and it is never negative.            *)
(***************************************************************************)
C37_DepthIsStackSize ==
    /\ xml.depth = Len(xml.element_stack)
    /\ xml.depth >= 0

\* endElement (no element open), A, B, B, endElement: two elements stay open
C37_Witness ==
    /\ xmlHist.calls = 5
    /\ xmlHist.last.op = "endElement"
    /\ xml.depth = 2
    /\ xml.element_stack = <<"A", "B">>
    /\ NonBlank(xml.os) = <<"<A", ">", "<B", ">", "<B", "/>">>

(***************************************************************************)
(* C36.  Attribute text is written only inside a start tag that has not    *)
(* been terminated: whenever attribute (or ScopedElement::attr, which      *)
(* forwards to it) writes anything, the builder is in state InStartTag.    *)
(* attribute leaves state_ alone, so the state after the call is the state *)
(* the call found.                                                         *)
(***************************************************************************)
C36_AttributeOnlyInStartTag ==
    (xmlHist.last.op = "attribute" /\ xmlHist.last.wrote # <<>>) =>
        xml.state = "InStartTag"

(***************************************************************************)
(* C32.  A streaming write puts as many (length header, payload) blocks in *)
(* the binary section as it writes DataArray elements in the schema,       *)
(* whatever registration calls came before it, repeated setPoints or       *)
(* setCells included.                                                      *)
(***************************************************************************)
C32_StreamingBlocksMatchArrays ==
    Streamed => Len(Doc.segs) = Len(Doc.arrays)

(***************************************************************************)
(* C33.  The pre-pass of a compressed write reads accessors_ only inside   *)
(* its bounds: the index it uses for a valid block (0..3 for the points    *)
(* and cell blocks, 4 onwards for point data then cell data) is below the  *)
(* number of registered accessors, so the write does not run into the      *)
(* undefined read.                                                         *)
(***************************************************************************)
C33_PrePassIndexInBounds ==
    (last.op = "write" /\ last.mode = "compressed") =>
        /\ \A k \in 1..Len(Blocks) : Blocks[k].valid => k - 1 < Len(accessors)
        /\ ret # "crash"

(***************************************************************************)
(* C34.  A streaming write made after a compressed write on the same       *)
(* writer declares, for every array, the offset the array had at its       *)
(* registration: the sum of 8 + size_bytes over the arrays registered      *)
(* before it.  The file still at the path before the step tells that the   *)
(* write before was a compressed one.                                      *)
(***************************************************************************)
C34_StreamingAfterCompressedOffsets ==
    [][(/\ writes' = writes + 1
        /\ last'.mode = "streaming"
        /\ file # <<>> /\ file[1].compressor # ""
        /\ file' # <<>>)
       => \A i \in 1..Len(file'[1].arrays) :
              file'[1].arrays[i].offset = RegistrationOffset(file'[1].arrays[i].reg)
      ]_vars

(***************************************************************************)
(* C35.  Of two write calls on the same writer with no other call between  *)
(* them, both of which opened the file and met the same behaviour of the   *)
(* compressor, the second leaves the same document as the first: the same  *)
(* schema with the same declared offsets and the same binary section.      *)
(***************************************************************************)
C35_RepeatedWriteIsIdentical ==
    [][(/\ writes' = writes + 1
        /\ last.op = "write" /\ last'.op = "write"
        /\ last'.failAt = last.failAt
        /\ file # <<>> /\ file' # <<>>)
       => file' = file
      ]_vars

====
